---- MODULE Spec2Model ----
(***************************************************************************)
(* Model of arfx/migrate.py: the migration driver migrate_file, the two    *)
(* registered steps cvt_11 (0.9/1.0 -> 1.1) and cvt_11_20 (1.1 -> 2.0),    *)
(* and the attribute reconciler unpickle_attrs.                            *)
(*                                                                         *)
(* Representation.  A string is a sequence of tokens (a token is one       *)
(* character, or a whole word where the characters do not matter); an      *)
(* attribute value is a sequence whose first element is a type tag         *)
(* ("str", "int", "float", "none", "pair") followed by the payload.  A     *)
(* child name is a sequence of tokens, so that the temporary name          *)
(* "_arfmigrate_" + name is the concatenation the code computes.  A        *)
(* mapping (attributes, links, objects) is a function whose DOMAIN is the  *)
(* set of keys that are present.                                           *)
(***************************************************************************)
EXTENDS Integers, Sequences, FiniteSets, TLC

\* ------------------------------------------------------------------ bounds
MaxEntries == 2      \* entries per container
MaxRows == 2         \* rows of a per-entry catalog
NCols == 2           \* columns of a wide sampled dataset
NSamples == 2        \* samples (rows) of an array

\* ------------------------------------------------------------- mappings
EmptyMap == <<>>
Put(m, k, v) == [x \in (DOMAIN m) \cup {k} |-> IF x = k THEN v ELSE m[x]]
Del(m, k) == [x \in (DOMAIN m) \ {k} |-> m[x]]
Get(m, k, default) == IF k \in DOMAIN m THEN m[k] ELSE default

\* --------------------------------------------------------------- values
Str(chars) == <<"str">> \o chars
IntV(d) == <<"int", d>>
NoneV == <<"none">>
DigitVal(c) ==
  CASE c = "0" -> 0 [] c = "1" -> 1 [] c = "2" -> 2 [] c = "3" -> 3
    [] c = "4" -> 4 [] c = "5" -> 5 [] c = "6" -> 6 [] c = "7" -> 7
    [] c = "8" -> 8 [] c = "9" -> 9

V09 == Str(<<"0", ".", "9">>)
V10 == Str(<<"1", ".", "0">>)
V11 == Str(<<"1", ".", "1">>)
V20 == Str(<<"2", ".", "0">>)

\* StrictVersion("M.m"): the pair of numbers the string is parsed to.
StrictVersion(s) == <<DigitVal(s[2]), DigitVal(s[4])>>
\* StrictVersion.__cmp__: lexicographic order on the parsed numbers.
VersionLess(a, b) == a[1] < b[1] \/ (a[1] = b[1] /\ a[2] < b[2])

\* float(sampling_rate)
Float(v) == <<"float", v[2]>>

\* arf.convert_timestamp((ts, tsm)): the canonical (seconds, microseconds) pair.
ConvertTimestamp(ts, tsm) == <<"pair", ts[2], tsm[2]>>

\* arf.DataTypes.UNDEFINED
UNDEFINED == IntV("0")
\* Python truth value of a catalog field (0 and the empty string are false).
Truthy(v) == v # IntV("0") /\ v # Str(<<>>) /\ v # <<>>

\* ------------------------------------------------------- unpickle_attrs
\* isinstance(v, basestring) and len(v) > 0 and v[-1] == '.'
IsPickled(v) == v[1] = "str" /\ Len(v) > 1 /\ v[Len(v)] = "."

\* cPickle.loads on a protocol-0 pickle: "I<d>\n." is the integer d, "N." is
\* None, "S'<c>'\n." is the string c; anything else does not decode.
Loads(v) ==
  LET c == SubSeq(v, 2, Len(v)) IN
    IF Len(c) = 4 /\ c[1] = "I" /\ c[2] \in {"0", "1", "2", "3", "4", "5", "6", "7", "8", "9"} /\ c[3] = "\n"
      THEN [ok |-> TRUE, val |-> IntV(c[2])]
    ELSE IF c = <<"N", ".">>
      THEN [ok |-> TRUE, val |-> NoneV]
    ELSE IF Len(c) = 6 /\ c[1] = "S" /\ c[2] = "'" /\ c[4] = "'" /\ c[5] = "\n"
      THEN [ok |-> TRUE, val |-> Str(<<c[3]>>)]
    ELSE [ok |-> FALSE, val |-> v]

\* attrs[k] = val succeeds unless h5py has no HDF5 type for the value.
CanStore(val) == val[1] # "none"

\* Keys of m whose value is pickled, decodes and can be stored.
DecodableKeys(m) == {k \in DOMAIN m : IsPickled(m[k]) /\ Loads(m[k]).ok /\ CanStore(Loads(m[k]).val)}
\* Keys of m whose value decodes but cannot be stored: the handler of line
\* 40-42 formats one %s with a 2-tuple, which raises TypeError.
StoreFailKeys(m) == {k \in DOMAIN m : IsPickled(m[k]) /\ Loads(m[k]).ok /\ ~CanStore(Loads(m[k]).val)}

\* attrs after the keys in S were replaced by the decoding of src[k].
Decoded(attrs, src, S) ==
  [k \in (DOMAIN attrs) \cup S |-> IF k \in S THEN Loads(src[k]).val ELSE attrs[k]]

\* (variant: line 27 does not leave out the keys the target has)
unpickle_attrs_All(attrs, old_attrs) ==
  LET afterA == Decoded(attrs, attrs, DecodableKeys(attrs))
  IN  IF StoreFailKeys(attrs) # {} \/ StoreFailKeys(old_attrs) # {}
        THEN {[attrs |-> Decoded(attrs, attrs, S), raised |-> TRUE] : S \in SUBSET DecodableKeys(attrs)}
      ELSE {[attrs |-> Decoded(afterA, old_attrs, DecodableKeys(old_attrs)), raised |-> FALSE]}

\* The outcomes of unpickle_attrs(attrs, old_attrs): the target's own items are
\* visited first, then the items only the legacy source has (line 26-30).  The
\* order inside each part is the container's iteration order, which the code
\* does not fix: when a store fails, any subset of the decodable keys of that
\* part may already have been rewritten.
unpickle_attrs(attrs, old_attrs) ==
  LET olda == [k \in (DOMAIN old_attrs) \ (DOMAIN attrs) |-> old_attrs[k]]
      afterA == Decoded(attrs, attrs, DecodableKeys(attrs))
  IN  IF StoreFailKeys(attrs) # {}
        THEN {[attrs |-> Decoded(attrs, attrs, S), raised |-> TRUE] : S \in SUBSET DecodableKeys(attrs)}
      ELSE IF StoreFailKeys(olda) # {}
        THEN {[attrs |-> Decoded(afterA, olda, S), raised |-> TRUE] : S \in SUBSET DecodableKeys(olda)}
      ELSE {[attrs |-> Decoded(afterA, olda, DecodableKeys(olda)), raised |-> FALSE]}

\* ------------------------------------------------------ nodes of an entry
\* An entry is [attrs, links, objs]: links maps a child name to an object id
\* (two names may be hard links to one object), objs maps an id to
\* [kind, ndim, attrs, data, rows].  kind is "array", "vlarray" or "table";
\* data is a sequence of rows, each a sequence of numbers; rows are the
\* records of a catalog table.
_catalogname == <<"catalog">>
TmpName(n) == <<"_arfmigrate_">> \o n

\* arf.dataset_properties(dset) -> (dtype, stype, ncol)
dataset_properties(o) ==
  IF o.kind = "vlarray" THEN <<"event", "vlarray", Len(o.data)>>
  ELSE IF o.kind = "table" THEN <<"unknown", "table", Len(o.rows)>>
  ELSE IF o.ndim < 2 THEN <<"sampled", "array", 1>>
  ELSE <<"sampled", "array", IF Len(o.data) = 0 THEN 0 ELSE Len(o.data[1])>>

\* (variant: the column index is ignored)
Column_First(data, c) == [t \in 1..Len(data) |-> <<data[t][1]>>]

\* old_dset[:, c]
Column(data, c) == [t \in 1..Len(data) |-> <<data[t][c + 1]>>]
\* h5vlen.read(old_dset)[c]: the events of record c as a one-dimensional array
VlenRead(data, c) == [t \in 1..Len(data[c + 1]) |-> <<data[c + 1][t]>>]

\* Objects no link refers to any more are freed by the container.
Collect(links, objs) == [i \in {links[n] : n \in DOMAIN links} |-> objs[i]]
NewId(objs) == IF DOMAIN objs = {} THEN 1 ELSE 1 + CHOOSE i \in DOMAIN objs : \A j \in DOMAIN objs : j <= i

\* (variant: nothing is written, the node keeps the attributes it has)
set_attributes_Keep(attrs, new) == attrs

\* arf.set_attributes(node, **attributes)
set_attributes(attrs, new) ==
  [k \in (DOMAIN attrs) \cup (DOMAIN new) |-> IF k \in DOMAIN new THEN new[k] ELSE attrs[k]]

\* line 138-144: the names PyTables leaves on a node, by kind of node (the
\* values of the table are never read)
_pytables_attributes ==
  [kind \in {"file", "group", "carray", "earray", "vlarray", "table"} |->
     CASE kind = "file" -> {"TITLE", "VERSION", "CLASS", "PYTABLES_FORMAT_VERSION"}
       [] kind = "earray" -> {"TITLE", "VERSION", "CLASS", "EXTDIM"}
       [] OTHER -> {"TITLE", "VERSION", "CLASS"}]

\* line 151: the names of every kind, in one set
pyt_attr_names == UNION {_pytables_attributes[kind] : kind \in DOMAIN _pytables_attributes}

\* (variant: only the names of the kind "group" are removed)
StripPyt_GroupOnly(attrs) == [k \in (DOMAIN attrs) \ _pytables_attributes["group"] |-> attrs[k]]

\* line 162-163, 166-167, 175-176: the attributes without the names of line 151
StripPyt(attrs) == [k \in (DOMAIN attrs) \ pyt_attr_names |-> attrs[k]]

\* ---------------------------------------------------------------- state
VARIABLES
  fattrs,     \* attributes of the file (afp.attrs)
  cat,        \* the top-level catalog table: [present, rows]
  entries,    \* the groups of the file: entry name -> [attrs, links, objs]
  kwargs,     \* the keyword parameters migrate_file was called with
  pc,         \* position in migrate_file / the running step
  ci,         \* index into converters (line 190)
  invoked,    \* targets of the steps invoked so far, in order (line 193)
  err,        \* the exception that ended the run, "none" otherwise
  stepVer,    \* arf_version attribute when the running step was invoked
  stepFattrs, \* the file's attributes when the running step was invoked
  stepEntries, \* the entries when the running step was invoked
  returned,   \* what migrate_file returned to its caller, "unset" before
  rerun,      \* TRUE in a run made on the container a finished run left
  recuri,     \* cvt_11: line 61
  ei,         \* cvt_11: index of the row of ecat being handled (line 65)
  cur,        \* the entry the running step is working on
  ccat,       \* cvt_11: copy of the entry's catalog (line 84)
  pending,    \* children still to rename (line 88) / to upgrade (line 165)
  old_nodes,  \* cvt_11: line 87
  ri,         \* cvt_11: index of the row of ccat being handled (line 95)
  pendingE,   \* cvt_11_20: entries still to upgrade (line 157)
  nextUuid,   \* number of identifiers uuid4 has generated
  fattrs0, cat0, entries0,  \* the container as it was when the run started
  newname,    \* migrate_file: the parameter newname (NoneV when not given)
  opened,     \* the path of the file that is open (NoneV before it is opened)
  disk,       \* the files that are not open: path -> container (data file, output)
  arglist,    \* arfx, collect: the list of entries or of files the function was called with
  keyorder,   \* arfx: the keys of the open file in iteration order
  it,         \* arfx: what is left of the sequence the running loop goes through
  taken,      \* arfx: number of items the running loop has taken
  fi,         \* copy_entries, add_entries: index into files (line 323, 201)
  count,      \* delete_entries: line 294
  repacked,   \* delete_entries: TRUE once repack_file was called (line 309), whatever came of it
  entry_names, \* check_entry_consistency: line 73
  channel_props, \* check_entry_consistency: line 74 (<<>> for None, <<props>> otherwise)
  called,     \* arfx: the function that was called ("migrate_file" otherwise)
  ebase,      \* copy_entries, update_entries, add_entries: line 319, 386, 197
  main        \* splitter: the local variables of main, <<>> when it is not running

file == <<fattrs, cat, entries>>
locals == <<recuri, ei, cur, ccat, pending, old_nodes, ri, pendingE>>
start == <<fattrs0, cat0, entries0, kwargs, rerun, returned>>
paths == <<newname, opened, disk>>
tool == <<arglist, keyorder, it, taken, fi, count, repacked, entry_names, channel_props,
         called, ebase>>
vars == <<fattrs, cat, entries, kwargs, pc, ci, invoked, err, stepVer, stepFattrs, stepEntries,
          returned, rerun, recuri, ei, cur, ccat, pending, old_nodes, ri, pendingE,
          nextUuid, fattrs0, cat0, entries0, newname, opened, disk,
          arglist, keyorder, it, taken, fi, count, repacked, entry_names, channel_props,
          called, ebase, main>>

NoCatalog == [present |-> FALSE, rows |-> <<>>]

\* ------------------------------------------------------------ the driver
\* line 179-180
converters == << [v |-> StrictVersion(V11), f |-> "cvt_11"],
                 [v |-> StrictVersion(V20), f |-> "cvt_11_20"] >>

\* (variant: an absent attribute is read as the newest legacy version)
DeclaredVersion_DefaultNewer(attrs) == StrictVersion(Get(attrs, "arf_version", V11))

\* line 191: the declared version, "0.9" when the attribute is absent
DeclaredVersion(attrs) == StrictVersion(Get(attrs, "arf_version", V09))

\* (variant: the comparison of line 192 written <= instead of <)
StepApplies_OrEqual(file_version, v) == ~VersionLess(v, file_version)

\* line 192
StepApplies(file_version, v) == VersionLess(file_version, v)

\* (variant: the driver swallows the exception and ends as if up to date)
Raise_Swallowed(exc) == pc' = "done" /\ err' = exc

\* An exception raised in a step: migrate_file has no handler (line 189-195),
\* so the run ends there and the exception reaches the caller
Raise(exc) == pc' = "error" /\ err' = exc

\* The path migrate_file is called with, and a path for the copy
InputPath == Str(<<"in.arf">>)
CopyPath == Str(<<"out.arf">>)

\* A file as a whole
Container(fa, c, es) == [fattrs |-> fa, cat |-> c, entries |-> es]

\* (variant: line 187 is missing)
OpenedPath_Original(path, new) == path

\* line 185-187: the path of the file that line 189 opens
OpenedPath(path, new) == IF new # NoneV THEN new ELSE path

\* line 185-189: the input is copied to newname when newname is given
\* (shutil.copy2 makes a duplicate, replacing what was at newname), and the
\* file at the resulting path is opened read-write.  Before the call the
\* variables fattrs, cat, entries hold the file at InputPath; from here on
\* they hold the open file, and disk holds the files that are not open.
Open ==
  /\ pc = "start"
  /\ LET all == Put(disk, InputPath, Container(fattrs, cat, entries))
         copied == IF newname # NoneV THEN Put(all, newname, all[InputPath]) ELSE all
         path == OpenedPath(InputPath, newname)
     IN  /\ opened' = path
         /\ disk' = Del(copied, path)
         /\ fattrs' = copied[path].fattrs
         /\ cat' = copied[path].cat
         /\ entries' = copied[path].entries
  /\ pc' = "loop"
  /\ UNCHANGED <<main, tool, locals, fattrs0, cat0, entries0, kwargs, rerun, returned, newname,
                 ci, invoked, err, stepVer, stepFattrs, stepEntries, nextUuid>>

\* line 190-193: one iteration of the loop over the registry
Dispatch ==
  /\ pc = "loop" /\ ci <= Len(converters)
  /\ IF StepApplies(DeclaredVersion(fattrs), converters[ci].v)
       THEN /\ invoked' = Append(invoked, converters[ci].v)
            /\ stepVer' = Get(fattrs, "arf_version", NoneV)
            /\ stepFattrs' = fattrs
            /\ stepEntries' = entries
            /\ pc' = converters[ci].f
            /\ ci' = ci
       ELSE /\ ci' = ci + 1
            /\ UNCHANGED <<invoked, stepVer, stepFattrs, stepEntries, pc>>
  /\ UNCHANGED <<main, paths, tool, file, locals, start, err, nextUuid>>

\* line 194-195: "is up to date" is printed, the file closed; the function ends
\* without a return statement, so the caller gets None
Finish ==
  /\ pc = "loop" /\ ci > Len(converters)
  /\ pc' = "done"
  /\ returned' = "None"
  /\ UNCHANGED <<main, paths, tool, file, locals, fattrs0, cat0, entries0, kwargs, rerun, ci, invoked, err,
                 stepVer, stepFattrs, stepEntries, nextUuid>>

\* The caller runs migrate_file again with the same parameters, on the files
\* a finished run left (line 182-189)
Rerun ==
  /\ pc = "done" /\ ~rerun
  /\ rerun' = TRUE
  /\ LET all == Put(disk, opened, Container(fattrs, cat, entries))
     IN  /\ fattrs' = all[InputPath].fattrs /\ fattrs0' = all[InputPath].fattrs
         /\ cat' = all[InputPath].cat /\ cat0' = all[InputPath].cat
         /\ entries' = all[InputPath].entries /\ entries0' = all[InputPath].entries
         /\ disk' = Del(all, InputPath)
         /\ opened' = NoneV
  /\ pc' = "start" /\ ci' = 1 /\ invoked' = <<>> /\ returned' = "unset"
  /\ stepVer' = NoneV /\ stepFattrs' = EmptyMap /\ stepEntries' = EmptyMap
  /\ recuri' = NoneV /\ ei' = 1 /\ cur' = "" /\ ccat' = <<>> /\ pending' = {}
  /\ old_nodes' = {} /\ ri' = 1 /\ pendingE' = {} /\ nextUuid' = 0
  /\ UNCHANGED <<main, tool, newname, kwargs, err>>

\* the step returns to line 190
Return == pc' = "loop" /\ ci' = ci + 1

\* ------------------------------------------------ cvt_11 (0.9/1.0 -> 1.1)
\* line 61-63: recuri is read, the top-level catalog is copied
Cvt11Begin ==
  /\ pc = "cvt_11"
  /\ recuri' = Get(fattrs, "database_uri", NoneV)
  /\ IF cat.present
       THEN pc' = "c11_entry" /\ ei' = 1 /\ err' = err
       ELSE Raise("KeyError") /\ ei' = ei
  /\ UNCHANGED <<main, paths, tool, file, start, ci, invoked, stepVer, stepFattrs, stepEntries, cur, ccat, pending, old_nodes, ri,
                 pendingE, nextUuid>>

\* (variant: line 71 is missing)
PromoteRow_NoMicro(attrs, r, uri) ==
  LET promoted == {"recid", "animal", "experimenter", "protocol"} \cap DOMAIN r
      a1 == [k \in (DOMAIN attrs) \cup promoted |-> IF k \in promoted THEN r[k] ELSE attrs[k]]
      a2 == Put(a1, "timestamp", ConvertTimestamp(r.timestamp, IntV("0")))
  IN  IF uri # NoneV THEN Put(a2, "recuri", uri) ELSE a2

\* line 67-75: the fields of the catalog row r become attributes of the entry
PromoteRow(attrs, r, uri) ==
  LET promoted == {"recid", "animal", "experimenter", "protocol"} \cap DOMAIN r
      a1 == [k \in (DOMAIN attrs) \cup promoted |-> IF k \in promoted THEN r[k] ELSE attrs[k]]
      tsm == IF "timestamp_m" \in DOMAIN r THEN r.timestamp_m ELSE IntV("0")
      a2 == Put(a1, "timestamp", ConvertTimestamp(r.timestamp, tsm))
  IN  IF uri # NoneV THEN Put(a2, "recuri", uri) ELSE a2

\* line 65-84: one row of the top-level catalog, up to the copy of the
\* entry's own catalog
Cvt11Entry ==
  /\ pc = "c11_entry" /\ ei <= Len(cat.rows)
  /\ LET r == cat.rows[ei] IN
       IF r.name \notin DOMAIN entries
         THEN /\ Raise("KeyError")
              /\ UNCHANGED <<entries, ei, cur, ccat, pending, old_nodes>>
         ELSE LET e == entries[r.name]
                  a == PromoteRow(e.attrs, r, recuri)
              IN  /\ err' = err
                  /\ cur' = r.name
                  /\ IF _catalogname \notin DOMAIN e.links
                       THEN /\ entries' = [entries EXCEPT ![r.name].attrs = a]
                            /\ ei' = ei + 1 /\ pc' = pc
                            /\ UNCHANGED <<ccat, pending, old_nodes>>
                     ELSE IF ~(Cardinality(DOMAIN e.links) > 1)
                       THEN /\ entries' = [entries EXCEPT ![r.name] =
                                 [attrs |-> a, links |-> Del(e.links, _catalogname),
                                  objs |-> Collect(Del(e.links, _catalogname), e.objs)]]
                            /\ ei' = ei + 1 /\ pc' = pc
                            /\ UNCHANGED <<ccat, pending, old_nodes>>
                     ELSE /\ entries' = [entries EXCEPT ![r.name].attrs = a]
                          /\ ccat' = e.objs[e.links[_catalogname]].rows
                          /\ pending' = DOMAIN e.links
                          /\ old_nodes' = {}
                          /\ pc' = "c11_rename" /\ ei' = ei
  /\ UNCHANGED <<main, paths, tool, fattrs, cat, start, ci, invoked, stepVer, stepFattrs, stepEntries, recuri, ri, pendingE, nextUuid>>

\* (variant: line 88-93 are missing, the children keep their names)
Cvt11Rename_Skip ==
  /\ pc = "c11_rename"
  /\ pending' = {} /\ old_nodes' = {} /\ pc' = "c11_rows" /\ ri' = 1
  /\ UNCHANGED <<main, paths, tool, fattrs, cat, entries, start, ci, invoked, err, stepVer, stepFattrs,
                 stepEntries, recuri, ei, cur, ccat, pendingE, nextUuid>>

\* line 88-93: one child is linked under its temporary name and its old name
\* is removed; entry.keys() is a list made before the loop and its order is
\* the container's
Cvt11Rename ==
  /\ pc = "c11_rename"
  /\ \E n \in pending :
       LET e == entries[cur]
           new_name == TmpName(n)
       IN  IF new_name \in DOMAIN e.links
             THEN /\ Raise("NameExists")
                  /\ UNCHANGED <<entries, pending, old_nodes, ri>>
             ELSE /\ entries' = [entries EXCEPT ![cur].links =
                                    Del(Put(e.links, new_name, e.links[n]), n)]
                  /\ old_nodes' = old_nodes \cup {new_name}
                  /\ pending' = pending \ {n}
                  /\ err' = err
                  /\ IF pending \ {n} = {}
                       THEN pc' = "c11_rows" /\ ri' = 1
                       ELSE pc' = pc /\ ri' = ri
  /\ UNCHANGED <<main, paths, tool, fattrs, cat, start, ci, invoked, stepVer, stepFattrs, stepEntries, recuri, ei, cur, ccat,
                 pendingE, nextUuid>>

\* An array created by entry.create_dataset(name, data=data, ...)
NewArray(attrs, data) ==
  [kind |-> "array", ndim |-> 1, attrs |-> attrs, data |-> data, rows |-> <<>>]

\* line 96-122: the outcomes of projecting the catalog row rr onto the entry e:
\* the entry afterwards and the exception raised ("none" when the row succeeds)
ProjectRow(e, rr) ==
  LET names == DOMAIN rr
      hasNode == "node" \in names /\ Truthy(rr.node)
      fail(x) == {[entry |-> e, exc |-> x]}
  IN
  IF ~hasNode /\ "table" \notin names THEN fail("ValueError")
  ELSE
    LET node_name == IF hasNode THEN rr.node ELSE rr.table
        datatype == IF "datatype" \in names /\ Truthy(rr.datatype)
                      THEN rr.datatype ELSE UNDEFINED
        old_name == TmpName(node_name)
    IN
    IF old_name \notin DOMAIN e.links THEN fail("KeyError")
    ELSE
      LET oid == e.links[old_name]
          old_dset == e.objs[oid]
          p == dataset_properties(old_dset)
          vlen == p[1] = "event" /\ p[2] = "vlarray"
          split == ~vlen /\ p[1] = "sampled" /\ p[3] > 1
      IN
      IF (vlen \/ split) /\ rr.column \notin 0..(p[3] - 1) THEN fail("IndexError")
      ELSE IF split /\ "sampling_rate" \notin DOMAIN old_dset.attrs THEN fail("KeyError")
      ELSE IF rr.name \in DOMAIN e.links THEN fail("NameExists")
      ELSE
        LET nid == IF vlen \/ split THEN NewId(e.objs) ELSE oid
            new_dset ==
              IF vlen THEN NewArray(EmptyMap, VlenRead(old_dset.data, rr.column))
              ELSE IF split
                THEN NewArray([sampling_rate |-> old_dset.attrs.sampling_rate],
                              Column(old_dset.data, rr.column))
              ELSE old_dset
            a1 == set_attributes(new_dset.attrs, [datatype |-> datatype, units |-> rr.units])
            old_attrs == IF vlen \/ split THEN old_dset.attrs ELSE a1
        IN  {[entry |-> [attrs |-> e.attrs,
                         links |-> Put(e.links, rr.name, nid),
                         objs |-> Put(e.objs, nid, [new_dset EXCEPT !.attrs = u.attrs])],
              exc |-> IF u.raised THEN "TypeError" ELSE "none"]
               : u \in unpickle_attrs(a1, old_attrs)}

\* line 95-122: one row of the entry's catalog
Cvt11Row ==
  /\ pc = "c11_rows" /\ ri <= Len(ccat)
  /\ \E o \in ProjectRow(entries[cur], ccat[ri]) :
       /\ entries' = [entries EXCEPT ![cur] = o.entry]
       /\ IF o.exc = "none"
            THEN ri' = ri + 1 /\ pc' = pc /\ err' = err
            ELSE Raise(o.exc) /\ ri' = ri
  /\ UNCHANGED <<main, paths, tool, fattrs, cat, start, ci, invoked, stepVer, stepFattrs, stepEntries, recuri, ei, cur, ccat,
                 pending, old_nodes, pendingE, nextUuid>>

\* (variant: line 125-126 are missing, the temporaries stay)
Cvt11Cleanup_Leave ==
  /\ pc = "c11_rows" /\ ri > Len(ccat)
  /\ \E u \in unpickle_attrs(entries[cur].attrs, EmptyMap) :
       /\ entries' = [entries EXCEPT ![cur].attrs = u.attrs]
       /\ IF u.raised
            THEN Raise("TypeError") /\ ei' = ei
            ELSE pc' = "c11_entry" /\ ei' = ei + 1 /\ err' = err
  /\ UNCHANGED <<main, paths, tool, fattrs, cat, start, ci, invoked, stepVer, stepFattrs, stepEntries, recuri, cur, ccat,
                 pending, old_nodes, ri, pendingE, nextUuid>>

\* line 124-127: the temporaries are removed, the entry's attributes reconciled
Cvt11Cleanup ==
  /\ pc = "c11_rows" /\ ri > Len(ccat)
  /\ LET e == entries[cur]
         links1 == [n \in (DOMAIN e.links) \ old_nodes |-> e.links[n]]
     IN  \E u \in unpickle_attrs(e.attrs, EmptyMap) :
           /\ entries' = [entries EXCEPT ![cur] =
                            [attrs |-> u.attrs, links |-> links1,
                             objs |-> Collect(links1, e.objs)]]
           /\ IF u.raised
                THEN Raise("TypeError") /\ ei' = ei
                ELSE pc' = "c11_entry" /\ ei' = ei + 1 /\ err' = err
  /\ UNCHANGED <<main, paths, tool, fattrs, cat, start, ci, invoked, stepVer, stepFattrs, stepEntries, recuri, cur, ccat,
                 pending, old_nodes, ri, pendingE, nextUuid>>

\* (variant: line 130 is missing)
Cvt11RemoveCatalog_Keep ==
  /\ pc = "c11_entry" /\ ei > Len(cat.rows)
  /\ pc' = "c11_version"
  /\ UNCHANGED <<main, paths, tool, fattrs, cat, entries, locals, start, ci, invoked, err, stepVer, stepFattrs, stepEntries, nextUuid>>

\* line 129-130: the top-level catalog is removed
Cvt11RemoveCatalog ==
  /\ pc = "c11_entry" /\ ei > Len(cat.rows)
  /\ cat' = NoCatalog
  /\ pc' = "c11_version"
  /\ UNCHANGED <<main, paths, tool, fattrs, entries, locals, start, ci, invoked, err, stepVer, stepFattrs, stepEntries, nextUuid>>

\* line 132
Cvt11SetVersion ==
  /\ pc = "c11_version"
  /\ fattrs' = Put(fattrs, "arf_version", V11)
  /\ pc' = "c11_attrs"
  /\ UNCHANGED <<main, paths, tool, cat, entries, locals, start, ci, invoked, err, stepVer, stepFattrs, stepEntries, nextUuid>>

\* line 133-135: the database attributes are removed, the file's attributes
\* reconciled
Cvt11FixAttrs ==
  /\ pc = "c11_attrs"
  /\ \E u \in unpickle_attrs(Del(Del(fattrs, "database_class"), "database_uri"), EmptyMap) :
       /\ fattrs' = u.attrs
       /\ IF u.raised THEN Raise("TypeError") /\ ci' = ci
                      ELSE Return /\ err' = err
  /\ UNCHANGED <<main, paths, tool, cat, entries, locals, start, invoked, stepVer, stepFattrs, stepEntries, nextUuid>>

\* --------------------------------------------------- cvt_11_20 (1.1 -> 2.0)
\* uuid4(): the n-th identifier generated in this run; two calls never return
\* the same value
DigitTok == <<"1", "2", "3", "4", "5", "6", "7", "8", "9">>
Uuid4(n) == Str(<<"uuid4-", DigitTok[n]>>)

\* line 153
SamplingRateParam(kw) == Get(kw, "sampling_rate", NoneV)

\* (variant: the test of line 168 without the conjunct on units)
NeedsRate_AnyUnits(attrs) == "sampling_rate" \notin DOMAIN attrs

\* (variant: the test of line 168 without its last conjunct)
NeedsRate_IgnoreRate(attrs) ==
  "units" \in DOMAIN attrs /\ attrs["units"] = Str(<<"samples">>)

\* line 168: the dataset counts samples and says nothing of its rate
NeedsRate(attrs) ==
  /\ "units" \in DOMAIN attrs
  /\ attrs["units"] = Str(<<"samples">>)
  /\ "sampling_rate" \notin DOMAIN attrs

\* (variant: the test of line 159 is missing)
WithUuid_Overwrite(attrs, n) == Put(attrs, "uuid", Uuid4(n))

\* line 159-161: the entry's attributes after arf.set_uuid_attr when it has no uuid
WithUuid(attrs, n) == IF "uuid" \notin DOMAIN attrs THEN Put(attrs, "uuid", Uuid4(n)) ELSE attrs

\* line 157: afp.items() is a list made before the loop
Cvt20Begin ==
  /\ pc = "cvt_11_20"
  /\ pendingE' = DOMAIN entries
  /\ pc' = "c20_entry"
  /\ UNCHANGED <<main, paths, tool, file, start, ci, invoked, err, stepVer, stepFattrs, stepEntries, recuri, ei, cur, ccat, pending,
                 old_nodes, ri, nextUuid>>

\* line 158-165: the attributes of one entry
Cvt20Entry ==
  /\ pc = "c20_entry"
  /\ \E e \in pendingE :
       LET a == entries[e].attrs IN
         /\ entries' = [entries EXCEPT ![e].attrs = StripPyt(WithUuid(a, nextUuid + 1))]
         /\ nextUuid' = IF "uuid" \notin DOMAIN a THEN nextUuid + 1 ELSE nextUuid
         /\ pendingE' = pendingE \ {e}
         /\ cur' = e
         /\ pending' = DOMAIN entries[e].links
         /\ pc' = IF DOMAIN entries[e].links = {} THEN pc ELSE "c20_dset"
  /\ UNCHANGED <<main, paths, tool, fattrs, cat, start, ci, invoked, err, stepVer, stepFattrs, stepEntries, recuri, ei, ccat,
                 old_nodes, ri>>

\* line 166-172: one dataset of the entry
Cvt20Dset ==
  /\ pc = "c20_dset"
  /\ \E d \in pending :
       LET e == entries[cur]
           id == e.links[d]
           a1 == StripPyt(e.objs[id].attrs)
           sampling_rate == SamplingRateParam(kwargs)
       IN  IF NeedsRate(a1) /\ sampling_rate = NoneV
             THEN /\ entries' = [entries EXCEPT ![cur].objs[id].attrs = a1]
                  /\ Raise("ValueError")
                  /\ pending' = pending
             ELSE /\ entries' = [entries EXCEPT ![cur].objs[id].attrs =
                        IF NeedsRate(a1) THEN Put(a1, "sampling_rate", Float(sampling_rate))
                                         ELSE a1]
                  /\ pending' = pending \ {d}
                  /\ pc' = IF pending \ {d} = {} THEN "c20_entry" ELSE pc
                  /\ err' = err
  /\ UNCHANGED <<main, paths, tool, fattrs, cat, start, ci, invoked, stepVer, stepFattrs, stepEntries, recuri, ei, cur, ccat,
                 old_nodes, ri, pendingE, nextUuid>>

\* (variant: line 177 is missing)
Cvt20Final_NoVersion ==
  /\ pc = "c20_entry" /\ pendingE = {}
  /\ fattrs' = StripPyt(fattrs)
  /\ Return
  /\ UNCHANGED <<main, paths, tool, cat, entries, locals, start, invoked, err, stepVer, stepFattrs, stepEntries, nextUuid>>

\* line 174-177: the file's attributes are stripped, the version is set
Cvt20Final ==
  /\ pc = "c20_entry" /\ pendingE = {}
  /\ fattrs' = Put(StripPyt(fattrs), "arf_version", V20)
  /\ Return
  /\ UNCHANGED <<main, paths, tool, cat, entries, locals, start, invoked, err, stepVer, stepFattrs, stepEntries, nextUuid>>

\* ------------------------------------------------------------- containers
\* The containers the runs start from.  A legacy container (declared version
\* absent, 0.9 or 1.0) has a top-level catalog with one row per entry, and its
\* entries may have a catalog of their own; a container of version 1.1 or 2.0
\* has no catalogs.  The catalogs of version 1.0 have the fields of the 1.0
\* schema, those of older containers the fields of the 0.9 schema.
EntryNames == <<"e1", "e2", "e3", "e4">>
Samples == Str(<<"samples">>)
MilliVolt == Str(<<"mV">>)
Rate == IntV("5")
OldUuid == Str(<<"uuid-old">>)


Wide(attrs) ==
  [kind |-> "array", ndim |-> 2, attrs |-> attrs,
   data |-> [t \in 1..NSamples |-> [c \in 1..NCols |-> 10 * t + c]], rows |-> <<>>]
Single(attrs) ==
  [kind |-> "array", ndim |-> 1, attrs |-> attrs,
   data |-> [t \in 1..NSamples |-> [c \in 1..1 |-> 10 * t + c]], rows |-> <<>>]
VlArray(attrs) ==
  [kind |-> "vlarray", ndim |-> 1, attrs |-> attrs,
   data |-> [c \in 1..NCols |-> [t \in 1..c |-> 10 * c + t]], rows |-> <<>>]
Table(rows) == [kind |-> "table", ndim |-> 1, attrs |-> EmptyMap, data |-> <<>>, rows |-> rows]

\* A row of a per-entry catalog (_Channel schema of 1.0, of 0.9)
ChannelRow(legacy, node, column, name, units) ==
  IF legacy
    THEN [name |-> name, table |-> node, column |-> column, units |-> units]
    ELSE [name |-> name, node |-> node, column |-> column, units |-> units,
          datatype |-> IntV("1")]

\* An entry made of named children: children maps a name to an object
MakeEntry(attrs, children) ==
  LET names == DOMAIN children
      order == CHOOSE f \in [1..Cardinality(names) -> names] : \A n \in names : \E i \in DOMAIN f : f[i] = n
  IN  [attrs |-> attrs,
       links |-> [n \in names |-> CHOOSE i \in DOMAIN order : order[i] = n],
       objs |-> [i \in DOMAIN order |-> children[order[i]]]]

EntryAttrMenu == {EmptyMap, [uuid |-> OldUuid]}

\* Entries of a 1.0 container with any catalog of at most MaxRows rows over
\* the physical names d and mic and the logical names mic and lfp
Children(rows, D, M) ==
  [n \in {_catalogname} \cup {<<"d">> : x \in D} \cup {<<"mic">> : x \in M} |->
     IF n = _catalogname THEN Table(rows)
     ELSE IF n = <<"d">> THEN CHOOSE x \in D : TRUE
     ELSE CHOOSE x \in M : TRUE]
RichEntry(rows, D, M) == MakeEntry(EmptyMap, Children(rows, D, M))

\* Nodes as PyTables wrote them: its bookkeeping attributes beside attributes
\* of the user, one of them pickled; the entry of a legacy container has a
\* packed timestamp, the entry of a 1.1 container the canonical pair
PickledInt == Str(<<"I", "5", "\n", ".">>)
GroupNotes(legacy) ==
  [k \in {"CLASS", "TITLE", "VERSION", "EXTDIM", "comment", "trial", "timestamp"} |->
     CASE k = "CLASS" -> Str(<<"GROUP">>)
       [] k = "TITLE" -> Str(<<>>)
       [] k = "VERSION" -> Str(<<"1", ".", "0">>)
       [] k = "EXTDIM" -> IntV("1")
       [] k = "comment" -> Str(<<"c">>)
       [] k = "trial" -> PickledInt
       [] k = "timestamp" -> IF legacy THEN IntV("9") ELSE ConvertTimestamp(IntV("7"), IntV("3"))]
ArrayNotes ==
  [k \in {"CLASS", "EXTDIM", "sampling_rate", "gain", "offset"} |->
     CASE k = "CLASS" -> Str(<<"EARRAY">>)
       [] k = "EXTDIM" -> IntV("1")
       [] k = "sampling_rate" -> Rate
       [] k = "gain" -> IntV("3")
       [] k = "offset" -> PickledInt]

\* Attributes of the file besides the declared version
FileAttrMenu ==
  { EmptyMap,
    [TITLE |-> Str(<<>>), database_uri |-> Str(<<"uri">>), database_class |-> Str(<<"cls">>)],
    [note |-> Str(<<"I", "5", "\n", ".">>)],
    [note |-> Str(<<"N", ".">>)] }
WithVersion(attrs, v) == IF v = NoneV THEN attrs ELSE Put(attrs, "arf_version", v)

KwargsMenu == {EmptyMap, [sampling_rate |-> IntV("2")]}

\* All the ways to fill at most MaxEntries entries from menu
EntrySets(menu) ==
  UNION {{[x \in {EntryNames[i] : i \in 1..n} |-> choice[CHOOSE i \in 1..n : EntryNames[i] = x]] :
            choice \in [1..n -> menu]} : n \in 0..MaxEntries}
\* The top-level catalog of the entries es, one row for each (_Catalog
\* schema of 1.0, of 0.9)
CatalogOf(legacy, es) ==
  LET n == Cardinality(DOMAIN es)
      CatalogRow(name) ==
        IF legacy
          THEN [name |-> name, timestamp |-> IntV("7")]
          ELSE [name |-> name, timestamp |-> IntV("7"), timestamp_m |-> IntV("3"),
                recid |-> IntV("1")]
  IN  [present |-> TRUE, rows |-> [i \in 1..n |-> CatalogRow(EntryNames[i])]]

\* ---------------------------------------------------------- specification
\* The state when migrate_file is called on the container (fa, c, es), with
\* newname new and the keyword parameters kw; the variables of the functions
\* of arfx.py and collect.py are not in use
CalledWith(new, fa, c, es, kw) ==
  /\ newname = new /\ opened = NoneV /\ disk = EmptyMap /\ main = <<>>
  /\ arglist = <<>> /\ keyorder = <<>> /\ it = <<>> /\ taken = 0 /\ fi = 1 /\ count = 0
  /\ repacked = FALSE /\ entry_names = <<>> /\ channel_props = <<>>
  /\ called = "migrate_file" /\ ebase = NoneV
  /\ fattrs = fa /\ cat = c /\ entries = es /\ kwargs = kw
  /\ fattrs0 = fa /\ cat0 = c /\ entries0 = es
  /\ pc = "start" /\ ci = 1 /\ invoked = <<>> /\ err = "none" /\ stepVer = NoneV
  /\ stepFattrs = EmptyMap /\ stepEntries = EmptyMap /\ returned = "unset" /\ rerun = FALSE
  /\ recuri = NoneV /\ ei = 1 /\ cur = "" /\ ccat = <<>> /\ pending = {}
  /\ old_nodes = {} /\ ri = 1 /\ pendingE = {} /\ nextUuid = 0

\* legacy containers with at most MaxEntries small entries: no catalog; an
\* empty catalog; a wide dataset with one row per column; one dataset that is
\* only renamed
Legacy(new) ==
  LET SmallLegacyEntries(legacy) ==
        LET SmallLegacyChildren ==
              { EmptyMap,
                [n \in {_catalogname} |-> Table(<<>>)],
                [n \in {_catalogname, <<"d">>} |->
                   IF n = _catalogname
                     THEN Table([c \in 1..NCols |-> ChannelRow(legacy, <<"d">>, c - 1, <<"ch", DigitTok[c]>>, MilliVolt)])
                     ELSE Wide([sampling_rate |-> Rate])],
                [n \in {_catalogname, <<"d">>} |->
                   IF n = _catalogname
                     THEN Table(<<ChannelRow(legacy, <<"d">>, 0, <<"mic">>, Samples)>>)
                     ELSE Single(EmptyMap)] }
        IN  {MakeEntry(a, ch) : a \in EntryAttrMenu, ch \in SmallLegacyChildren}
  IN  \E v \in {NoneV, V09, V10}, fa \in FileAttrMenu, kw \in KwargsMenu :
        \E es \in EntrySets(SmallLegacyEntries(v # V10)) :
          CalledWith(new, WithVersion(fa, v), CatalogOf(v # V10, es), es, kw)

\* 1.0 containers with one entry and any catalog
InitRich ==
  LET DsetAttrMenu == {EmptyMap, [sampling_rate |-> Rate]}
      PhysD == {Wide(a) : a \in DsetAttrMenu} \cup {Single(a) : a \in DsetAttrMenu}
                 \cup {VlArray(a) : a \in DsetAttrMenu}
      PhysMic == {Single([sampling_rate |-> Rate])}
      RowsOver(units) ==
        LET row == {ChannelRow(FALSE, node, col, name, units) :
                      node \in {<<"d">>, <<"mic">>}, col \in {0, NCols - 1},
                      name \in {<<"mic">>, <<"lfp">>}}
        IN  UNION {[1..n -> row] : n \in 0..MaxRows}
  IN  \E kw \in KwargsMenu, units \in {Samples, MilliVolt},
         D \in {{}} \cup {{d} : d \in PhysD}, M \in {{}} \cup {{m} : m \in PhysMic} :
        \E rows \in RowsOver(units) :
          LET es == [x \in {EntryNames[1]} |-> RichEntry(rows, D, M)]
          IN  CalledWith(NoneV, WithVersion(EmptyMap, V10), CatalogOf(FALSE, es), es, kw)

\* legacy containers whose top-level catalog is missing
Broken(new) ==
  \E v \in {NoneV, V09, V10} :
    CalledWith(new, WithVersion(EmptyMap, v), NoCatalog, EmptyMap, EmptyMap)

\* containers of version 1.1 and 2.0
Modern(new) ==
  LET ModernEntries ==
        LET ModernDsetAttrs ==
              {EmptyMap, [units |-> MilliVolt], [units |-> Samples],
               [units |-> Samples, sampling_rate |-> Rate]}
        IN  {MakeEntry(a, EmptyMap) : a \in EntryAttrMenu}
              \cup {MakeEntry(a, [n \in {<<"mic">>} |-> Single(da)]) :
                      a \in EntryAttrMenu, da \in ModernDsetAttrs}
  IN  \E v \in {V11, V20}, fa \in FileAttrMenu, kw \in KwargsMenu, es \in EntrySets(ModernEntries) :
        CalledWith(new, WithVersion(fa, v), NoCatalog, es, kw)

\* containers of version 1.0 and 1.1 that PyTables wrote; the entries of the
\* 1.0 container: no catalog; an empty catalog; a wide dataset with one row per
\* column; a variable-length dataset with one row; one dataset that is only
\* renamed
Annotated(new) ==
  LET AnnotatedLegacyEntries ==
        LET AnnotatedLegacyChildren ==
              { EmptyMap,
                [n \in {_catalogname} |-> Table(<<>>)],
                [n \in {_catalogname, <<"d">>} |->
                   IF n = _catalogname
                     THEN Table([c \in 1..NCols |-> ChannelRow(FALSE, <<"d">>, c - 1, <<"ch", DigitTok[c]>>, MilliVolt)])
                     ELSE Wide(ArrayNotes)],
                [n \in {_catalogname, <<"d">>} |->
                   IF n = _catalogname
                     THEN Table(<<ChannelRow(FALSE, <<"d">>, 0, <<"spk">>, Samples)>>)
                     ELSE VlArray(ArrayNotes)],
                [n \in {_catalogname, <<"d">>} |->
                   IF n = _catalogname
                     THEN Table(<<ChannelRow(FALSE, <<"d">>, 0, <<"mic">>, MilliVolt)>>)
                     ELSE Single(ArrayNotes)] }
        IN  {MakeEntry(GroupNotes(TRUE), ch) : ch \in AnnotatedLegacyChildren}
      AnnotatedModernEntries ==
        { MakeEntry(GroupNotes(FALSE), EmptyMap),
          MakeEntry(GroupNotes(FALSE), [n \in {<<"mic">>} |-> Single(Put(ArrayNotes, "units", MilliVolt))]) }
      FileNotes ==
        [k \in {"CLASS", "TITLE", "VERSION", "PYTABLES_FORMAT_VERSION", "note", "lab"} |->
           CASE k = "CLASS" -> Str(<<"GROUP">>)
             [] k = "TITLE" -> Str(<<>>)
             [] k = "VERSION" -> Str(<<"1", ".", "0">>)
             [] k = "PYTABLES_FORMAT_VERSION" -> Str(<<"2", ".", "0">>)
             [] k = "note" -> PickledInt
             [] k = "lab" -> Str(<<"x">>)]
  IN  \/ \E kw \in KwargsMenu, es \in EntrySets(AnnotatedLegacyEntries) :
           CalledWith(new, WithVersion(FileNotes, V10), CatalogOf(FALSE, es), es, kw)
      \/ \E kw \in KwargsMenu, es \in EntrySets(AnnotatedModernEntries) :
           CalledWith(new, WithVersion(FileNotes, V11), NoCatalog, es, kw)

\* migrate_file(path, **kwargs): the container is upgraded in place
Init == Legacy(NoneV) \/ InitRich \/ Broken(NoneV) \/ Modern(NoneV) \/ Annotated(NoneV)

\* migrate_file(path, newname, **kwargs): a copy is upgraded
InitCopy ==
  Legacy(CopyPath) \/ Broken(CopyPath) \/ Modern(CopyPath) \/ Annotated(CopyPath)

Next ==
  \/ Open \/ Dispatch \/ Finish \/ Rerun
  \/ Cvt11Begin \/ Cvt11Entry \/ Cvt11Rename \/ Cvt11Row \/ Cvt11Cleanup
  \/ Cvt11RemoveCatalog \/ Cvt11SetVersion \/ Cvt11FixAttrs
  \/ Cvt20Begin \/ Cvt20Entry \/ Cvt20Dset \/ Cvt20Final

Spec == Init /\ [][Next]_vars
SpecCopy == InitCopy /\ [][Next]_vars

\* ==================================================================== arfx
\* The functions of arfx/arfx.py that work on the entries of a file, and
\* check_entry_consistency of arfx/collect.py.  The open file is entries (its
\* groups) and keyorder (its keys in the order iteration gives them); the name
\* of an entry is a sequence of tokens, a path is a sequence of names.  The
\* functions are called as the script arfx calls them: with the options of
\* the dictionary defaults (line 27-36) as keyword parameters.
migrate == <<fattrs, cat, ci, invoked, stepVer, stepFattrs, stepEntries, rerun, recuri, ei, cur,
             ccat, pending, old_nodes, ri, pendingE, nextUuid, fattrs0, cat0, newname>>

Range(q) == {q[n] : n \in DOMAIN q}
Without(q, x) == SelectSeq(q, LAMBDA y : y # x)
\* the orders in which a library may yield the members of S
Orders(S) == {f \in [1..Cardinality(S) -> S] : Range(f) = S}

TypeErrorV == <<"TypeError">>
NameExists == {"ValueError", "RuntimeError"}

\* the conversion %04d
Pad4(n) ==
  LET tok == <<"0", "1", "2", "3", "4", "5", "6", "7", "8", "9">>
  IN  <<tok[((n \div 1000) % 10) + 1], tok[((n \div 100) % 10) + 1],
        tok[((n \div 10) % 10) + 1], tok[(n % 10) + 1]>>

\* format % args: every conversion of the format takes one argument; too
\* few or too many arguments raise TypeError
RECURSIVE Format(_, _)
Format(fmt, args) ==
  IF fmt = <<>> THEN (IF args = <<>> THEN <<>> ELSE TypeErrorV)
  ELSE IF Head(fmt) \in {"%s", "%04d"}
    THEN IF args = <<>> THEN TypeErrorV
         ELSE LET rest == Format(Tail(fmt), Tail(args))
                  this == IF Head(fmt) = "%04d" THEN Pad4(Head(args)) ELSE Head(args)
              IN  IF rest = TypeErrorV THEN TypeErrorV ELSE this \o rest
    ELSE LET rest == Format(Tail(fmt), args)
         IN  IF rest = TypeErrorV THEN TypeErrorV ELSE <<Head(fmt)>> \o rest

\* ebase.find('%') < 0 (line 387)
NoConversion(fmt) == \A n \in DOMAIN fmt : fmt[n] \notin {"%s", "%04d"}

\* entries is None or len(entries)==0 (line 291, 387, 393)
NoneOrEmpty(list) == list = NoneV \/ Len(list) = 0

\* (variant: delete_entry removes nothing)
delete_entry_Keep(es, name) == es

\* arfp.delete_entry(entry) (line 298)
delete_entry(es, name) == Del(es, name)

\* line 291-294: nothing to do without names; otherwise the file is opened
DeleteBegin ==
  /\ pc = "delete_entries"
  /\ IF NoneOrEmpty(arglist)
       THEN pc' = "done" /\ returned' = "None" /\ UNCHANGED <<it, count>>
       ELSE pc' = "del_loop" /\ it' = arglist /\ count' = 0 /\ returned' = returned
  /\ UNCHANGED <<main, migrate, entries, entries0, kwargs, err, opened, disk, arglist, keyorder, taken, fi,
                 repacked, entry_names, channel_props, called, ebase>>

\* line 295-305: one name of the list
DeleteStep ==
  /\ pc = "del_loop" /\ it # <<>>
  /\ LET entry == Head(it) IN
       IF entry \in DOMAIN entries
         THEN /\ entries' = delete_entry(entries, entry)
              /\ keyorder' = Without(keyorder, entry)
              /\ count' = count + 1
         ELSE UNCHANGED <<entries, keyorder, count>>
  /\ it' = Tail(it)
  /\ UNCHANGED <<main, migrate, entries0, kwargs, pc, err, returned, opened, disk, arglist, taken, fi,
                 repacked, entry_names, channel_props, called, ebase>>

\* repack_file((src,), **options) (line 431-451) on a file that holds the
\* entries es: h5repack is run through os.system, its status is not looked
\* at (line 447), and its output is copied over the file (line 448).
\* h5repack wrote the whole file; or it stopped after a part of its output,
\* and the file is replaced by that part; or it wrote nothing (it is not
\* installed, it could not read the file), the copy raises IOError and the
\* file stays as it was.  kept is the set of entries the file holds after.
repack_file(es) ==
  {[kept |-> S, exc |-> "none"] : S \in SUBSET DOMAIN es}
    \cup {[kept |-> DOMAIN es, exc |-> "IOError"]}

\* line 306-309: the file is closed, and repacked when an entry was deleted
\* and the option repack is set; an exception of repack_file ends the call
DeleteEnd ==
  /\ pc = "del_loop" /\ it = <<>>
  /\ IF count > 0 /\ kwargs.repack
       THEN \E o \in repack_file(entries) :
                  /\ repacked' = TRUE
                  /\ entries' = [n \in o.kept |-> entries[n]]
                  /\ keyorder' = SelectSeq(keyorder, LAMBDA n : n \in o.kept)
                  /\ IF o.exc = "none"
                       THEN pc' = "done" /\ returned' = "None" /\ err' = err
                       ELSE Raise(o.exc) /\ returned' = returned
       ELSE /\ repacked' = FALSE
            /\ pc' = "done" /\ returned' = "None"
            /\ UNCHANGED <<entries, keyorder, err>>
  /\ UNCHANGED <<main, migrate, entries0, kwargs, opened, disk, arglist, it,
                 taken, fi, count, entry_names, channel_props, called, ebase>>

\* posixpath.relpath(entry) (line 393): the name without "./" components
relpath(name) == SelectSeq(name, LAMBDA t : t # "./")

\* line 386-390: the template of the new names
UpdateBegin ==
  /\ pc = "update_entries"
  /\ LET eb == Get(kwargs, "entry_base", NoneV) IN
       ebase' = IF NoneOrEmpty(arglist) /\ eb # NoneV /\ NoConversion(eb)
                  THEN eb \o <<"_", "%04d">> ELSE eb
  /\ it' = keyorder /\ taken' = 0 /\ pc' = "upd_loop"
  /\ UNCHANGED <<main, migrate, entries, entries0, kwargs, err, returned, opened, disk, arglist, keyorder,
                 fi, count, repacked, entry_names, channel_props, called>>

\* line 392-406: one key of the file, the taken-th of the enumeration.  An
\* exception leaves the loop through the finally clause of line 407.
UpdateStep ==
  /\ pc = "upd_loop" /\ it # <<>>
  /\ LET entry == Head(it)
         name == Format(ebase, <<taken>>)
         enode == [entries[entry] EXCEPT !.attrs = set_attributes(@, kwargs.entry_attrs)]
     IN  IF NoneOrEmpty(arglist) \/ relpath(entry) \in Range(arglist)
           THEN IF ebase # NoneV /\ ebase # <<>>
                  THEN IF name = TypeErrorV
                         THEN /\ pc' = "error" /\ err' = "TypeError"
                              /\ UNCHANGED <<entries, keyorder>>
                       ELSE IF name \in DOMAIN entries
                         THEN /\ pc' = "error" /\ err' \in NameExists
                              /\ UNCHANGED <<entries, keyorder>>
                       ELSE /\ entries' = Put(Del(entries, entry), name, enode)
                            /\ keyorder' = Append(Without(keyorder, entry), name)
                            /\ UNCHANGED <<pc, err>>
                  ELSE /\ entries' = Put(entries, entry, enode)
                       /\ UNCHANGED <<keyorder, pc, err>>
           ELSE UNCHANGED <<entries, keyorder, pc, err>>
  /\ it' = Tail(it) /\ taken' = taken + 1
  /\ UNCHANGED <<main, migrate, entries0, kwargs, returned, opened, disk, arglist, fi, count,
                 repacked, entry_names, channel_props, called, ebase>>

\* line 407-408: the file is closed
UpdateEnd ==
  /\ pc = "upd_loop" /\ it = <<>>
  /\ pc' = "done" /\ returned' = "None"
  /\ UNCHANGED <<main, migrate, entries, entries0, kwargs, err, opened, disk, arglist, keyorder, it,
                 taken, fi, count, repacked, entry_names, channel_props, called, ebase>>

\* posixpath.split(p): the parts of p around its last "/"
split(p) ==
  LET cut == {n \in DOMAIN p : p[n] = "/"}
      m == CHOOSE n \in cut : \A x \in cut : x <= n
  IN  IF cut = {} THEN <<<<>>, p>>
      ELSE <<IF m = 1 THEN <<"/">> ELSE SubSeq(p, 1, m - 1), SubSeq(p, m + 1, Len(p))>>

\* line 328-340: what the argument f asks to copy, as pairs (file, name of
\* the entry): every entry of the file f, or the entry fn of the file pn;
\* nothing when there is no such file or no such entry
Requested(files, f) ==
  LET pn == split(f)[1]
      fn == split(f)[2]
  IN  IF f \in DOMAIN files
        THEN [n \in DOMAIN files[f].keys |-> <<f, files[f].keys[n]>>]
      ELSE IF pn \in DOMAIN files /\ fn \in DOMAIN files[pn].entries
        THEN <<<<pn, fn>>>>
      ELSE <<>>

\* line 319-321: the target is opened, created when it does not exist
CopyBegin ==
  /\ pc = "copy_entries"
  /\ ebase' = Get(kwargs, "entry_base", NoneV)
  /\ fi' = 1 /\ pc' = "copy_files"
  /\ UNCHANGED <<main, migrate, entries, entries0, kwargs, err, returned, opened, disk, arglist, keyorder,
                 it, taken, count, repacked, entry_names, channel_props, called>>

\* line 323-340: the next argument; the loop goes on to the argument after
\* it (continue) when it names nothing that exists
CopyFile ==
  /\ pc = "copy_files" /\ fi <= Len(arglist)
  /\ LET f == arglist[fi]
         pn == split(f)[1]
         fn == split(f)[2]
     IN  IF f \in DOMAIN disk \/ (pn \in DOMAIN disk /\ fn \in DOMAIN disk[pn].entries)
           THEN it' = Requested(disk, f) /\ pc' = "copy_it" /\ fi' = fi
           ELSE fi' = fi + 1 /\ UNCHANGED <<it, pc>>
  /\ UNCHANGED <<main, migrate, entries, entries0, kwargs, err, returned, opened, disk, arglist, keyorder,
                 taken, count, repacked, entry_names, channel_props, called, ebase>>

\* line 342-350: one entry is copied under its own name, or under the name
\* made of entry_base and the number of entries of the target.  h5py raises
\* ValueError or RuntimeError, depending on its version, when the name
\* exists; line 349 catches ValueError only.
CopyEntry ==
  /\ pc = "copy_it" /\ it # <<>>
  /\ LET fname == Head(it)[1]
         entry == disk[fname].entries[Head(it)[2]]
         entry_name ==
           IF ebase # NoneV
             THEN Format(<<"%s", "_", "%04d">>, <<ebase, Cardinality(DOMAIN entries)>>)
             ELSE split(<<"/">> \o Head(it)[2])[2]
     IN  IF entry_name \in DOMAIN entries
           THEN \E exc \in NameExists :
                  IF exc = "ValueError"
                    THEN UNCHANGED <<entries, keyorder, pc, err>>
                    ELSE pc' = "error" /\ err' = exc /\ UNCHANGED <<entries, keyorder>>
           ELSE /\ entries' = Put(entries, entry_name, entry)
                /\ keyorder' = Append(keyorder, entry_name)
                /\ UNCHANGED <<pc, err>>
  /\ it' = Tail(it)
  /\ UNCHANGED <<main, migrate, entries0, kwargs, returned, opened, disk, arglist, taken, fi, count,
                 repacked, entry_names, channel_props, called, ebase>>

\* the entries of the argument are done: the next argument
CopyNext ==
  /\ pc = "copy_it" /\ it = <<>>
  /\ fi' = fi + 1 /\ pc' = "copy_files"
  /\ UNCHANGED <<main, migrate, entries, entries0, kwargs, err, returned, opened, disk, arglist, keyorder,
                 it, taken, count, repacked, entry_names, channel_props, called, ebase>>

\* line 352-353: the files are closed
CopyEnd ==
  /\ pc = "copy_files" /\ fi > Len(arglist)
  /\ pc' = "done" /\ returned' = "None"
  /\ UNCHANGED <<main, migrate, entries, entries0, kwargs, err, opened, disk, arglist, keyorder, it,
                 taken, fi, count, repacked, entry_names, channel_props, called, ebase>>

\* arf.is_time_series(dset): it has a sampling rate and its units are not a time
is_time_series(dset) ==
  /\ "sampling_rate" \in DOMAIN dset.attrs
  /\ Get(dset.attrs, "units", NoneV) \notin {Str(<<"s">>), Samples}

\* channel_properties(entry, channels, predicate) (line 38-46); predicate is
\* the name of the function, any_type (line 22) or is_time_series
channel_properties(entry, channels, predicate) ==
  [name \in {n \in DOMAIN entry.links :
               /\ (predicate = "any_type" \/ is_time_series(entry.objs[entry.links[n]]))
               /\ (channels = NoneV \/ n \in Range(channels))} |->
     LET dset == entry.objs[entry.links[name]]
     IN  [sampling_rate |-> Get(dset.attrs, "sampling_rate", NoneV),
          units |-> Get(dset.attrs, "units", NoneV),
          dtype |-> IF dset.kind = "table" THEN "compound" ELSE "int",
          samples |-> IF dset.kind = "table" THEN Len(dset.rows) ELSE Len(dset.data),
          channels |-> IF dset.ndim < 2 \/ Len(dset.data) = 0 THEN 1 ELSE Len(dset.data[1])]]

\* line 82: the values of "samples"
sample_counts(props) == {props[name].samples : name \in DOMAIN props}

\* line 82: props once "samples" is popped from every value
Popped(props) ==
  [name \in DOMAIN props |->
     [k \in (DOMAIN props[name]) \ {"samples"} |-> props[name][k]]]

\* line 73-75: the keys of the file in order of creation
CheckBegin ==
  /\ pc = "check_entry_consistency"
  /\ entry_names' = <<>> /\ channel_props' = <<>>
  /\ it' = keyorder /\ pc' = "chk_loop"
  /\ UNCHANGED <<main, migrate, entries, entries0, kwargs, err, returned, opened, disk, arglist, keyorder,
                 taken, fi, count, repacked, called, ebase>>

\* line 75-91: one key of the file
CheckStep ==
  /\ pc = "chk_loop" /\ it # <<>>
  /\ LET entry_name == Head(it)
         props == IF called = "collect_sampled_script"
                    THEN channel_properties(entries[entry_name], kwargs.channels, "is_time_series")
                    ELSE channel_properties(entries[entry_name], NoneV, "any_type")
         back == IF called = "collect_sampled_script" THEN "collect_open" ELSE "done"
     IN  IF arglist # NoneV /\ entry_name \in Range(arglist)
           THEN UNCHANGED <<entry_names, channel_props, pc, returned>>
         ELSE IF entry_name \notin DOMAIN entries
           THEN UNCHANGED <<entry_names, channel_props, pc, returned>>
         ELSE IF Cardinality(sample_counts(props)) > 1
           THEN pc' = back /\ returned' = "None" /\ UNCHANGED <<entry_names, channel_props>>
         ELSE IF channel_props = <<>>
           THEN /\ channel_props' = <<Popped(props)>>
                /\ entry_names' = Append(entry_names, entry_name)
                /\ UNCHANGED <<pc, returned>>
         ELSE IF Popped(props) # channel_props[1]
           THEN pc' = back /\ returned' = "None" /\ UNCHANGED <<entry_names, channel_props>>
         ELSE /\ entry_names' = Append(entry_names, entry_name)
              /\ UNCHANGED <<channel_props, pc, returned>>
  /\ it' = Tail(it)
  /\ UNCHANGED <<main, migrate, entries, entries0, kwargs, err, opened, disk, arglist, keyorder,
                 taken, fi, count, repacked, called, ebase>>

\* line 92: return entry_names, channel_props
CheckEnd ==
  /\ pc = "chk_loop" /\ it = <<>>
  /\ pc' = IF called = "collect_sampled_script" THEN "collect_open" ELSE "done"
  /\ returned' = "tuple"
  /\ UNCHANGED <<main, migrate, entries, entries0, kwargs, err, opened, disk, arglist, keyorder, it,
                 taken, fi, count, repacked, entry_names, channel_props, called, ebase>>

\* ---------------------------------------------------------- add_entries
\* io.open(path, mode='r') on the data files `files`: the handle of the
\* file, or the exception (IOError when there is no such file, TypeError
\* when its format is not recognised).  A handle is [exc, nentries,
\* timestamp, mtime, channels, sampling_rate, frames]: mtime is what
\* os.fstat(fp.fp.fileno()).st_mtime gives, NoneV when the handle has no
\* fp.fileno; frames[e][c] is what read gives for channel c of entry e - 1.
io_open(files, path) ==
  IF path \in DOMAIN files THEN files[path] ELSE [exc |-> "IOError"]

\* channelgroup(files, cbase='pcm') (line 95-160): one channel per file
channelgroup(files, group) ==
  LET handles == [i \in DOMAIN group |-> io_open(files, group[i])]
      failed == {i \in DOMAIN handles : handles[i].exc # "none"}
      nentries == {handles[i].nentries : i \in DOMAIN handles}
      nframes(e) == {Len(handles[i].frames[e][1]) : i \in DOMAIN handles}
  IN  IF failed # {}
        THEN [exc |-> handles[CHOOSE i \in failed : \A j \in failed : i <= j].exc]
      ELSE IF Cardinality(nentries) # 1
        THEN [exc |-> "ValueError"]
      ELSE IF \E e \in 1..handles[1].nentries : Cardinality(nframes(e)) # 1
        THEN [exc |-> "ValueError"]
      ELSE [exc |-> "none", nentries |-> handles[1].nentries,
            timestamp |-> handles[1].timestamp, mtime |-> NoneV,
            channels |-> [i \in DOMAIN handles |-> <<"pcm", "_">> \o Tail(Pad4(i - 1))],
            sampling_rate |-> handles[1].sampling_rate,
            frames |-> [e \in 1..handles[1].nentries |->
                          [i \in DOMAIN handles |-> handles[i].frames[e][1]]]]

\* default_entry_template.format(base=base, index=index) (line 40)
default_entry_template(base, index) == Format(<<"%s", "_", "%04d">>, <<base, index>>)

\* iter_entries(src) (line 162-184): the handle, and the names of the
\* entries it yields in order.  An argument is [list, v]: a path, or (list)
\* a group of paths
iter_entries(files, src) ==
  LET fp == IF src.list THEN channelgroup(files, src.v) ELSE io_open(files, src.v)
      name == split(IF src.list THEN src.v[1] ELSE src.v)[2]
      dots == {n \in 2..Len(name) : name[n] = "."}
      fbase == IF dots = {} THEN name
               ELSE SubSeq(name, 1, (CHOOSE n \in dots : \A x \in dots : x <= n) - 1)
  IN  [fp |-> fp,
       names |-> IF fp.exc # "none" THEN <<>>
                 ELSE [e \in 1..fp.nentries |->
                         IF fp.nentries = 1 THEN fbase
                         ELSE default_entry_template(fbase, e - 1)]]

\* line 196-200: the options are read, the target is opened
AddBegin ==
  /\ pc = "add_entries"
  /\ ebase' = Get(kwargs, "entry_base", NoneV)
  /\ fi' = 1 /\ pc' = "add_files"
  /\ UNCHANGED <<main, migrate, entries, entries0, kwargs, err, returned, opened, disk, arglist, keyorder,
                 it, taken, count, repacked, entry_names, channel_props, called>>

\* line 201-203, 226-229: the next argument is opened; TypeError, IOError and
\* ValueError are caught and the loop goes on to the argument after it
AddFile ==
  /\ pc = "add_files" /\ fi <= Len(arglist)
  /\ LET src == iter_entries(disk, arglist[fi])
     IN  IF src.fp.exc # "none"
           THEN fi' = fi + 1 /\ UNCHANGED <<it, taken, pc>>
           ELSE it' = src.names /\ taken' = 0 /\ pc' = "add_it" /\ fi' = fi
  /\ UNCHANGED <<main, migrate, entries, entries0, kwargs, err, returned, opened, disk, arglist, keyorder,
                 count, repacked, entry_names, channel_props, called, ebase>>

\* line 204-223, 230-231: one entry of the source.  A source without a
\* timestamp and without a file number raises ValueError; create_entry
\* raises ValueError or RuntimeError, as h5py does, when the name exists.
\* ValueError is caught at line 230 and ends the work on this argument.
AddEntry ==
  /\ pc = "add_it" /\ it # <<>>
  /\ LET f == arglist[fi]
         fp == iter_entries(disk, f).fp
         timestamp == IF fp.timestamp # NoneV THEN fp.timestamp ELSE fp.mtime
         entry_name ==
           IF ebase # NoneV
             THEN default_entry_template(ebase, Cardinality(DOMAIN entries))
             ELSE Head(it)
         dset(c) ==
           [kind |-> "array", ndim |-> 1,
            attrs |-> [datatype |-> kwargs.datatype,
                       sampling_rate |-> fp.sampling_rate,
                       source_file |-> IF f.list THEN <<"list">> \o f.v ELSE Str(f.v),
                       source_entry |-> IntV(Pad4(taken)[4])],
            data |-> fp.frames[taken + 1][c], rows |-> <<>>]
         entry == MakeEntry(set_attributes([timestamp |-> timestamp], kwargs.entry_attrs),
                            [n \in Range(fp.channels) |->
                               dset(CHOOSE c \in DOMAIN fp.channels : fp.channels[c] = n)])
         caught == /\ fi' = fi + 1 /\ pc' = "add_files" /\ it' = <<>> /\ taken' = taken
                   /\ UNCHANGED <<entries, keyorder, err>>
     IN  IF timestamp = NoneV
           THEN caught
         ELSE IF entry_name \in DOMAIN entries
           THEN \E exc \in NameExists :
                  IF exc = "ValueError"
                    THEN caught
                    ELSE Raise(exc) /\ UNCHANGED <<entries, keyorder, it, taken, fi>>
         ELSE /\ entries' = Put(entries, entry_name, entry)
              /\ keyorder' = Append(keyorder, entry_name)
              /\ it' = Tail(it) /\ taken' = taken + 1
              /\ UNCHANGED <<pc, err, fi>>
  /\ UNCHANGED <<main, migrate, entries0, kwargs, returned, opened, disk, arglist, count,
                 repacked, entry_names, channel_props, called, ebase>>

\* the entries of the argument are done: the next argument
AddNext ==
  /\ pc = "add_it" /\ it = <<>>
  /\ fi' = fi + 1 /\ pc' = "add_files"
  /\ UNCHANGED <<main, migrate, entries, entries0, kwargs, err, returned, opened, disk, arglist, keyorder,
                 it, taken, count, repacked, entry_names, channel_props, called, ebase>>

\* line 232-233: the target is closed
AddEnd ==
  /\ pc = "add_files" /\ fi > Len(arglist)
  /\ pc' = "done" /\ returned' = "None"
  /\ UNCHANGED <<main, migrate, entries, entries0, kwargs, err, opened, disk, arglist, keyorder, it,
                 taken, fi, count, repacked, entry_names, channel_props, called, ebase>>

\* -------------------------------------------------------- reconcile_file
\* reconcile_file(src, entries, **options) (line 411-428).  Line 420: an
\* empty list stands for every entry of the file.  arfp.reconcile belongs to
\* the library arf and talks to the database: for an entry in its scope it
\* yields "new" (the entry gets the number of its new record), "pull" (the
\* attributes of the entry are replaced by those of the record), or "skip" /
\* "push" (the entry is left as it is), and it may raise after any of them.
\* The function prints the triples and closes the file.
ReconcileFile ==
  /\ pc = "reconcile_file"
  /\ IF arglist = NoneV
       THEN Raise("TypeError") /\ UNCHANGED <<entries, returned>>
       ELSE LET scope == IF Len(arglist) = 0 THEN DOMAIN entries
                         ELSE Range(arglist) \cap DOMAIN entries
            IN  \E action \in [scope -> {"none", "new", "skip", "push", "pull"}] :
                  /\ entries' =
                       [n \in DOMAIN entries |->
                          IF n \notin scope THEN entries[n]
                          ELSE IF action[n] = "new"
                            THEN [entries[n] EXCEPT !.attrs = Put(@, "recid", IntV("1"))]
                          ELSE IF action[n] = "pull"
                            THEN [entries[n] EXCEPT !.attrs = Put(@, "animal", Str(<<"db">>))]
                          ELSE entries[n]]
                  /\ IF \E n \in scope : action[n] = "none"
                       THEN Raise("IOError") /\ returned' = returned
                       ELSE pc' = "done" /\ returned' = "None" /\ err' = err
  /\ UNCHANGED <<main, migrate, entries0, kwargs, opened, disk, arglist, keyorder, it,
                 taken, fi, count, repacked, entry_names, channel_props, called, ebase>>

\* ------------------------------------------------ collect_sampled_script
\* natsorted(names), for the names of entries and channels used here
natsorted(names) ==
  SelectSeq([n \in 1..Len(EntryNames) |-> <<EntryNames[n]>>]
              \o <<<<"lfp">>, <<"mic">>, <<"new", "_">> \o Pad4(1), <<"notes">>, <<"spikes">>>>,
            LAMBDA n : n \in names)

\* line 118-128: the arguments are parsed, the file is opened for reading
\* and check_entry_consistency is called on it
CollectBegin ==
  /\ pc = "collect_sampled_script"
  /\ pc' = "check_entry_consistency"
  /\ UNCHANGED <<main, migrate, entries, entries0, kwargs, err, returned, opened, disk, arglist, keyorder,
                 it, taken, fi, count, repacked, entry_names, channel_props, called, ebase>>

\* line 125-148: the result of the check is unpacked (TypeError when it is
\* None), the properties of the output are computed (AttributeError when no
\* entry was included and channel_props is None) and the output file is
\* opened for writing.  first() gives the value of whichever channel the
\* dictionary yields first.
CollectOpen ==
  /\ pc = "collect_open"
  /\ IF returned = "None"
       THEN Raise("TypeError") /\ UNCHANGED <<disk, it>>
     ELSE IF channel_props = <<>>
       THEN Raise("AttributeError") /\ UNCHANGED <<disk, it>>
     ELSE LET props == channel_props[1]
              RECURSIVE nchannels(_)
              nchannels(S) ==
                IF S = {} THEN 0
                ELSE LET c == CHOOSE x \in S : TRUE IN props[c].channels + nchannels(S \ {c})
          IN  /\ \E firsts \in IF DOMAIN props = {} THEN {NoneV} ELSE {<<c>> : c \in DOMAIN props} :
                   disk' = Put(disk, kwargs.outfile,
                               [sampling_rate |-> IF firsts = NoneV THEN NoneV
                                                  ELSE props[firsts[1]].sampling_rate,
                                dtype |-> IF kwargs.dtype # NoneV THEN kwargs.dtype
                                          ELSE IF firsts = NoneV THEN NoneV
                                          ELSE Str(<<props[firsts[1]].dtype>>),
                                nchannels |-> nchannels(DOMAIN props),
                                data |-> <<>>])
              /\ it' = natsorted(Range(entry_names))
              /\ pc' = "collect_write" /\ err' = err
  /\ returned' = "unset"
  /\ UNCHANGED <<main, migrate, entries, entries0, kwargs, opened, arglist, keyorder,
                 taken, fi, count, repacked, entry_names, channel_props, called, ebase>>

\* line 149-155: the channels of one entry are stacked as columns and
\* written; numpy raises ValueError when there is no channel to stack
CollectWrite ==
  /\ pc = "collect_write" /\ it # <<>>
  /\ LET entry == entries[Head(it)]
         cnames == natsorted(DOMAIN channel_props[1])
         dset(c) == entry.objs[entry.links[cnames[c]]]
         RECURSIVE stack(_, _)
         stack(t, c) == IF c > Len(cnames) THEN <<>> ELSE dset(c).data[t] \o stack(t, c + 1)
         data == [t \in 1..Len(dset(1).data) |-> stack(t, 1)]
     IN  IF cnames = <<>>
           THEN Raise("ValueError") /\ UNCHANGED <<disk, it>>
           ELSE /\ disk' = [disk EXCEPT ![kwargs.outfile].data = @ \o data]
                /\ it' = Tail(it)
                /\ UNCHANGED <<pc, err>>
  /\ UNCHANGED <<main, migrate, entries, entries0, kwargs, returned, opened, arglist, keyorder,
                 taken, fi, count, repacked, entry_names, channel_props, called, ebase>>

\* the files are closed
CollectEnd ==
  /\ pc = "collect_write" /\ it = <<>>
  /\ pc' = "done" /\ returned' = "None"
  /\ UNCHANGED <<main, migrate, entries, entries0, kwargs, err, opened, disk, arglist, keyorder, it,
                 taken, fi, count, repacked, entry_names, channel_props, called, ebase>>

\* ------------------------------------------- extract_entries, list_entries
\* parse_name_template(dset, template, index) (line 54-92).  A template is
\* a sequence of tokens, a field being one token ("{entry}", "{channel}",
\* "{index}", "{animal}", "{units}"); a field that is neither of the first
\* three is looked up in the attributes of the dataset, then of the entry,
\* and is "NA" when neither has it
parse_name_template(entry, ename, channel, template, index) ==
  LET dset == entry.objs[entry.links[channel]]
      text(v) == IF v[1] = "str" THEN Tail(v) ELSE <<v[2]>>
      key(tok) == IF tok = "{animal}" THEN "animal" ELSE "units"
      value(tok) ==
        IF tok = "{entry}" THEN split(<<"/">> \o ename)[2]
        ELSE IF tok = "{channel}" THEN split(<<"/">> \o ename \o <<"/">> \o channel)[2]
        ELSE IF tok = "{index}" THEN <<Pad4(index)[4]>>
        ELSE IF tok \in {"{animal}", "{units}"}
          THEN IF key(tok) \in DOMAIN dset.attrs THEN text(dset.attrs[key(tok)])
               ELSE IF key(tok) \in DOMAIN entry.attrs THEN text(entry.attrs[key(tok)])
               ELSE <<"NA">>
        ELSE <<tok>>
      RECURSIVE format(_)
      format(t) == IF t = <<>> THEN <<>> ELSE value(Head(t)) \o format(Tail(t))
  IN  format(template)

\* line 251-276: the channels chans of one entry, in this order, are written
\* to the files `files`: the files after, and the exception that ended the
\* loop.  A sampled dataset of several columns and a dataset of unknown type
\* are left out; dset.attrs['sampling_rate'] raises KeyError when a sampled
\* dataset has no sampling rate; entry.attrs['timestamp'][0] is the seconds
\* of the pair, and raises IndexError on a scalar
RECURSIVE extract_channels(_, _, _, _, _, _)
extract_channels(files, entry, ename, index, chans, template) ==
  IF chans = <<>> THEN [files |-> files, exc |-> "none"]
  ELSE LET channel == Head(chans)
           dset == entry.objs[entry.links[channel]]
           fname == parse_name_template(entry, ename, channel, template, index)
           dtype == dataset_properties(dset)[1]
           ncols == dataset_properties(dset)[3]
           written(path, sampling_rate, timestamp) ==
             Put(files, path, [sampling_rate |-> sampling_rate, timestamp |-> timestamp,
                               data |-> dset.data])
           write(path, sampling_rate) ==
             IF "timestamp" \notin DOMAIN entry.attrs
               THEN extract_channels(written(path, sampling_rate, NoneV), entry, ename, index,
                                     Tail(chans), template)
             ELSE IF entry.attrs.timestamp[1] # "pair"
               THEN [files |-> written(path, sampling_rate, NoneV), exc |-> "IndexError"]
             ELSE extract_channels(written(path, sampling_rate, IntV(entry.attrs.timestamp[2])),
                                   entry, ename, index, Tail(chans), template)
       IN  IF dtype = "sampled" /\ ncols > 1
             THEN extract_channels(files, entry, ename, index, Tail(chans), template)
           ELSE IF dtype = "sampled"
             THEN IF "sampling_rate" \notin DOMAIN dset.attrs
                    THEN [files |-> files, exc |-> "KeyError"]
                    ELSE write(fname \o <<".", "wav">>, dset.attrs.sampling_rate)
           ELSE IF dtype = "interval"
             THEN write(fname \o <<".", "lbl">>, NoneV)
           ELSE IF dtype = "event"
             THEN write(fname \o <<".", "toe_lis">>, NoneV)
           ELSE extract_channels(files, entry, ename, index, Tail(chans), template)

\* line 246-249: len(entries) raises TypeError on None; an empty list stands
\* for every entry; the file is opened and its entries are taken in the
\* order of their timestamps (arfp.items(key='timestamp')).  The place of an
\* entry without timestamp, and of entries of one timestamp, is the library's.
ExtractBegin ==
  /\ pc = "extract_entries"
  /\ IF arglist = NoneV
       THEN Raise("TypeError") /\ UNCHANGED <<it, taken>>
       ELSE /\ \E items \in Orders(DOMAIN entries) :
                 /\ \A a, b \in DOMAIN items :
                      LET ta == Get(entries[items[a]].attrs, "timestamp", NoneV)
                          tb == Get(entries[items[b]].attrs, "timestamp", NoneV)
                      IN  (a < b /\ ta # NoneV /\ tb # NoneV) =>
                            ~VersionLess(<<DigitVal(tb[2]), DigitVal(tb[3])>>,
                                         <<DigitVal(ta[2]), DigitVal(ta[3])>>)
                 /\ it' = items
            /\ taken' = 0 /\ pc' = "ext_loop" /\ err' = err
  /\ UNCHANGED <<main, migrate, entries, entries0, kwargs, returned, opened, disk, arglist, keyorder,
                 fi, count, repacked, entry_names, channel_props, called, ebase>>

\* line 249-279: one entry of the file, the taken-th of the enumeration; its
\* channels are taken in the order the library yields them (line 251).  An
\* exception leaves the loop through the finally clause of line 280.
ExtractEntry ==
  /\ pc = "ext_loop" /\ it # <<>>
  /\ LET ename == Head(it)
         entry == entries[ename]
         named == Get(kwargs, "entry_base", NoneV)
         template == IF named = NoneV \/ named = <<>>
                       THEN <<"{entry}", "_", "{channel}">> ELSE named
     IN  IF Len(arglist) = 0 \/ ename \in Range(arglist)
           THEN \E chans \in Orders(DOMAIN entry.links) :
                  LET out == extract_channels(disk, entry, ename, taken, chans, template)
                  IN  /\ disk' = out.files
                      /\ IF out.exc = "none" THEN UNCHANGED <<pc, err>> ELSE Raise(out.exc)
           ELSE UNCHANGED <<disk, pc, err>>
  /\ it' = Tail(it) /\ taken' = taken + 1
  /\ UNCHANGED <<main, migrate, entries, entries0, kwargs, returned, opened, arglist, keyorder,
                 fi, count, repacked, entry_names, channel_props, called, ebase>>

\* line 280-281: the file is closed
ExtractEnd ==
  /\ pc = "ext_loop" /\ it = <<>>
  /\ pc' = "done" /\ returned' = "None"
  /\ UNCHANGED <<main, migrate, entries, entries0, kwargs, err, opened, disk, arglist, keyorder, it,
                 taken, fi, count, repacked, entry_names, channel_props, called, ebase>>

\* list_entries(src, entries, **options) (line 356-377): the file is opened
\* for reading, its entries are printed, and it is closed
ListEntries ==
  /\ pc = "list_entries"
  /\ pc' = "done" /\ returned' = "None"
  /\ UNCHANGED <<main, migrate, entries, entries0, kwargs, err, opened, disk, arglist, keyorder, it,
                 taken, fi, count, repacked, entry_names, channel_props, called, ebase>>

\* ------------------------------------------------------- inputs of arfx
MaxArgs == 2         \* names in the list a function is called with

Base == <<"new">>
NoSuch == <<"nosuch">>
SourcePath == <<"src.arf">>
ToolNames == {<<EntryNames[n]>> : n \in 1..MaxEntries} \cup {Base \o <<"_">> \o Pad4(1)}
ListsOver(S) == UNION {[1..n -> S] : n \in 0..MaxArgs}
NameLists == {NoneV} \cup ListsOver(ToolNames \cup {NoSuch})

Sampled(n) ==
  [kind |-> "array", ndim |-> 1, attrs |-> [k \in {"sampling_rate", "units"} |->
                                              IF k = "units" THEN MilliVolt ELSE Rate],
   data |-> [t \in 1..n |-> <<10 * t + 1>>], rows |-> <<>>]
\* entries: one channel; two channels and an attribute; and, when uneven, two
\* channels that differ in their number of samples
ToolEntries(uneven) ==
  {MakeEntry(EmptyMap, [n \in {<<"mic">>} |-> Sampled(NSamples)]),
   MakeEntry([animal |-> Str(<<"a">>)], [n \in {<<"mic">>, <<"lfp">>} |-> Sampled(NSamples)])}
    \cup IF uneven
           THEN {MakeEntry(EmptyMap, [n \in {<<"mic">>, <<"lfp">>} |->
                   IF n = <<"mic">> THEN Sampled(NSamples) ELSE Sampled(NSamples - 1)])}
           ELSE {}

\* the dictionary defaults (line 27-36), with the options the command line sets
Options(repack, entry_base, entry_attrs) ==
  [verbose |-> FALSE, entry_base |-> entry_base, datatype |-> UNDEFINED, compress |-> IntV("1"),
   repack |-> repack, split_sites |-> FALSE, push_db |-> NoneV, entry_attrs |-> entry_attrs]

ParkedMigrate ==
  /\ fattrs = EmptyMap /\ cat = NoCatalog /\ fattrs0 = EmptyMap /\ cat0 = NoCatalog
  /\ newname = NoneV /\ ci = 1 /\ invoked = <<>> /\ stepVer = NoneV
  /\ stepFattrs = EmptyMap /\ stepEntries = EmptyMap /\ rerun = FALSE
  /\ recuri = NoneV /\ ei = 1 /\ cur = "" /\ ccat = <<>> /\ pending = {}
  /\ old_nodes = {} /\ ri = 1 /\ pendingE = {} /\ nextUuid = 0

\* The state when function fn is called on the file (es, order) with the list
\* args and the options kw, the other files being files
ToolCall(fn, es, order, kw, args, files) ==
  /\ ParkedMigrate /\ main = <<>>
  /\ called = fn /\ pc = fn /\ err = "none" /\ returned = "unset"
  /\ entries = es /\ entries0 = es /\ keyorder = order /\ kwargs = kw
  /\ arglist = args /\ disk = files /\ opened = NoneV
  /\ it = <<>> /\ taken = 0 /\ fi = 1 /\ count = 0 /\ repacked = FALSE
  /\ entry_names = <<>> /\ channel_props = <<>> /\ ebase = NoneV

\* delete_entries(src, entries, **options)
InitDelete ==
  \E ns \in SUBSET ToolNames : Cardinality(ns) <= MaxEntries /\
    \E es \in [ns -> ToolEntries(FALSE)], args \in NameLists, rp \in BOOLEAN :
      ToolCall("delete_entries", es, CHOOSE o \in Orders(ns) : TRUE,
               Options(rp, NoneV, EmptyMap), args, EmptyMap)

\* update_entries(src, entries, **options)
InitUpdate ==
  \E ns \in SUBSET ToolNames : Cardinality(ns) <= MaxEntries /\
    \E es \in [ns -> ToolEntries(FALSE)], order \in Orders(ns), args \in NameLists,
       eb \in {NoneV, Base, Base \o <<"_", "%04d">>} :
      ToolCall("update_entries", es, order, Options(TRUE, eb, [animal |-> Str(<<"b">>)]),
               args, EmptyMap)

\* copy_entries(tgt, files, **options): the target holds entries with an
\* attribute, the file src.arf entries without
InitCopyEntries ==
  \E ns \in SUBSET ToolNames, ss \in SUBSET {<<EntryNames[n]>> : n \in 1..MaxEntries} :
    Cardinality(ns) <= MaxEntries /\
    \E es \in [ns -> {e \in ToolEntries(FALSE) : e.attrs # EmptyMap}],
       src \in [ss -> {e \in ToolEntries(FALSE) : e.attrs = EmptyMap}],
       files \in ListsOver({SourcePath, SourcePath \o <<"/", EntryNames[1]>>,
                            SourcePath \o <<"/">> \o NoSuch, NoSuch}),
       eb \in {NoneV, Base} :
      ToolCall("copy_entries", es, CHOOSE o \in Orders(ns) : TRUE, Options(TRUE, eb, EmptyMap),
               files, [p \in {SourcePath} |->
                         [entries |-> src, keys |-> CHOOSE o \in Orders(ss) : TRUE]])

\* check_entry_consistency(arfp, entries): the file holds a dataset, the key
\* "notes", beside its groups
InitCheck ==
  \E ns \in SUBSET ToolNames : Cardinality(ns) <= MaxEntries /\
    \E es \in [ns -> ToolEntries(TRUE)], order \in Orders(ns), args \in NameLists :
      ToolCall("check_entry_consistency", es, order \o <<<<"notes">>>>, EmptyMap, args, EmptyMap)

\* add_entries(tgt, files, **options): the data files a.wav (no timestamp,
\* the time of the file is used), b.pcm (two entries), e1.wav (one channel
\* more), c.npy (a sample less, no timestamp and no file number) and x.txt
\* (a format that is not recognised); the arguments are paths, among them
\* one of no file, and groups of paths
InitAdd ==
  LET wav == <<".", "wav">>
      Data(n, ts, mtime, chans, nframes) ==
        [exc |-> "none", nentries |-> n, timestamp |-> ts, mtime |-> mtime,
         channels |-> chans, sampling_rate |-> Rate,
         frames |-> [e \in 1..n |-> [c \in DOMAIN chans |-> Sampled(nframes).data]]]
      files ==
        [p \in {<<"a">> \o wav, <<"b", ".", "pcm">>, <<EntryNames[1]>> \o wav,
                <<"c", ".", "npy">>, <<"x", ".", "txt">>} |->
           CASE p = <<"a">> \o wav -> Data(1, NoneV, <<"float", "7">>, <<<<"pcm">>>>, NSamples)
             [] p = <<"b", ".", "pcm">> -> Data(2, IntV("8"), NoneV, <<<<"pcm">>>>, NSamples)
             [] p = <<EntryNames[1]>> \o wav ->
                  Data(1, IntV("9"), NoneV, <<<<"pcm">>, <<"lfp">>>>, NSamples)
             [] p = <<"c", ".", "npy">> -> Data(1, NoneV, NoneV, <<<<"pcm">>>>, NSamples - 1)
             [] OTHER -> [exc |-> "TypeError"]]
      Arguments ==
        {[list |-> FALSE, v |-> p] : p \in (DOMAIN files) \cup {<<"dir", "/">> \o NoSuch \o wav}}
          \cup {[list |-> TRUE, v |-> g] :
                  g \in {<<<<"b", ".", "pcm">>, <<"b", ".", "pcm">>>>,
                         <<<<"a">> \o wav, <<"b", ".", "pcm">>>>,
                         <<<<EntryNames[1]>> \o wav, <<"c", ".", "npy">>>>,
                         <<<<"c", ".", "npy">>>>}}
  IN  \E ns \in SUBSET ToolNames : Cardinality(ns) <= MaxEntries /\
        \E args \in ListsOver(Arguments), eb \in {NoneV, Base},
           md \in {EmptyMap, [animal |-> Str(<<"b">>)]} :
          ToolCall("add_entries", [n \in ns |-> MakeEntry(EmptyMap, [c \in {<<"mic">>} |-> Sampled(NSamples)])],
                   CHOOSE o \in Orders(ns) : TRUE, Options(TRUE, eb, md), args, files)

\* reconcile_file(src, entries, **options)
InitReconcile ==
  \E ns \in SUBSET ToolNames : Cardinality(ns) <= MaxEntries /\
    \E es \in [ns -> ToolEntries(FALSE)], args \in NameLists :
      ToolCall("reconcile_file", es, CHOOSE o \in Orders(ns) : TRUE,
               Options(TRUE, NoneV, EmptyMap), args, EmptyMap)

\* collect_sampled_script(argv): arfx-collect-sampled [-d float] [-c mic]
\* [-e ENTRY ...] src.arf out.dat; an entry may hold the channel spikes,
\* which is not a time series
InitCollect ==
  LET Spikes == [Sampled(NSamples) EXCEPT !.attrs = [units |-> Str(<<"s">>)]]
      Menu == ToolEntries(TRUE)
                \cup {MakeEntry(EmptyMap, [n \in {<<"mic">>, <<"spikes">>} |->
                                            IF n = <<"mic">> THEN Sampled(NSamples) ELSE Spikes]),
                      MakeEntry(EmptyMap, [n \in {<<"spikes">>} |-> Spikes])}
  IN  \E ns \in SUBSET ToolNames : Cardinality(ns) <= MaxEntries /\
        \E es \in [ns -> Menu], order \in Orders(ns),
           args \in {a \in NameLists : a = NoneV \/ Len(a) = 1},
           dtype \in {NoneV, Str(<<"float">>)}, channels \in {NoneV, <<<<"mic">>>>} :
          ToolCall("collect_sampled_script", es, order,
                   [verbose |-> FALSE, dtype |-> dtype, channels |-> channels,
                    arffile |-> SourcePath, outfile |-> <<"out", ".", "dat">>],
                   args, EmptyMap)

\* extract_entries(src, entries, **options): entries with and without a
\* timestamp; the datasets are sampled (one of them without a sampling rate,
\* one of several columns), events and a table; the option entry_base is not
\* set, or is a template without fields, or one with fields; the file
\* e1_mic.wav may exist
InitExtract ==
  LET at(n) == [timestamp |-> ConvertTimestamp(IntV(n), IntV("0"))]
      Menu == {MakeEntry(at("2"), [n \in {<<"mic">>} |-> Sampled(NSamples)]),
               MakeEntry(Put(at("1"), "animal", Str(<<"a">>)),
                         [n \in {<<"mic">>, <<"lfp">>} |-> Sampled(NSamples)]),
               MakeEntry(EmptyMap, [n \in {<<"d">>, <<"spk">>, <<"log">>} |->
                                      IF n = <<"d">> THEN Wide([sampling_rate |-> Rate])
                                      ELSE IF n = <<"spk">> THEN VlArray(EmptyMap)
                                      ELSE Table(<<>>)]),
               MakeEntry(at("1"), [n \in {<<"mic">>, <<"lfp">>} |->
                                     IF n = <<"mic">> THEN Single(EmptyMap)
                                     ELSE Sampled(NSamples)])}
      old == [p \in {<<EntryNames[1], "_", "mic", ".", "wav">>} |->
                [sampling_rate |-> IntV("1"), timestamp |-> NoneV, data |-> <<>>]]
  IN  \E ns \in SUBSET ToolNames : Cardinality(ns) <= MaxEntries /\
        \E es \in [ns -> Menu], args \in {a \in NameLists : Len(a) <= 1},
           eb \in {NoneV, <<"x">>, <<"{animal}", "_", "{index}">>},
           files \in {EmptyMap, old} :
          ToolCall("extract_entries", es, CHOOSE o \in Orders(ns) : TRUE,
                   Options(TRUE, eb, EmptyMap), args, files)

\* list_entries(src, entries, **options)
InitList ==
  \E ns \in SUBSET ToolNames : Cardinality(ns) <= MaxEntries /\
    \E es \in [ns -> ToolEntries(FALSE)], args \in NameLists :
      ToolCall("list_entries", es, CHOOSE o \in Orders(ns) : TRUE,
               Options(TRUE, NoneV, EmptyMap), args, EmptyMap)

InitTools ==
  \/ InitDelete \/ InitUpdate \/ InitCopyEntries \/ InitCheck
  \/ InitAdd \/ InitReconcile \/ InitCollect \/ InitExtract \/ InitList

NextTools ==
  \/ DeleteBegin \/ DeleteStep \/ DeleteEnd
  \/ UpdateBegin \/ UpdateStep \/ UpdateEnd
  \/ CopyBegin \/ CopyFile \/ CopyEntry \/ CopyNext \/ CopyEnd
  \/ CheckBegin \/ CheckStep \/ CheckEnd
  \/ AddBegin \/ AddFile \/ AddEntry \/ AddNext \/ AddEnd
  \/ ReconcileFile
  \/ CollectBegin \/ CollectOpen \/ CollectWrite \/ CollectEnd
  \/ ExtractBegin \/ ExtractEntry \/ ExtractEnd
  \/ ListEntries

SpecTools == InitTools /\ [][NextTools]_vars

\* ------------------------------------------------------------------ claims
NewestTarget == converters[Len(converters)].v
DeclaredAttr(attrs) == Get(attrs, "arf_version", NoneV)
LegacyStart == DeclaredAttr(fattrs0) \in {NoneV, V09, V10, V11}

\* C1: for a container whose declared version is 0.9, 1.0, 1.1 or absent, when
\* migrate_file has returned the declared version is the newest target of the
\* registry, and at no point of the run is the declared version lower than it
\* was when the run started.
C1_Monotonic ==
  LegacyStart =>
    /\ pc = "done" => /\ "arf_version" \in DOMAIN fattrs
                      /\ StrictVersion(fattrs["arf_version"]) = NewestTarget
                      /\ fattrs["arf_version"] = V20
    /\ ~VersionLess(DeclaredVersion(fattrs), DeclaredVersion(fattrs0))
C1_Witness ==
  /\ pc = "done" /\ DeclaredAttr(fattrs0) = NoneV /\ DOMAIN entries # {}
  /\ invoked = <<StrictVersion(V11), StrictVersion(V20)>>

TargetsAscending ==
  /\ \A i, j \in DOMAIN converters : i < j => VersionLess(converters[i].v, converters[j].v)
  /\ \A i, j \in DOMAIN invoked : i < j => VersionLess(invoked[i], invoked[j])
\* C2: the driver goes through the registry in strictly ascending target
\* order; when it reaches a step it invokes it if and only if the step's target
\* is strictly greater than the version declared at that moment; the targets
\* invoked in a run are strictly ascending, so no step is invoked twice.
C2_StepOrder ==
  /\ [](TargetsAscending)
  /\ [][ /\ (pc # "done" => ci' \in {ci, ci + 1})
         /\ (pc = "loop" /\ ci <= Len(converters) =>
               LET declared == StrictVersion(Get(fattrs, "arf_version", V09))
                   target == converters[ci].v
               IN  IF declared[1] < target[1] \/ (declared[1] = target[1] /\ declared[2] < target[2])
                     THEN invoked' = Append(invoked, target)
                     ELSE invoked' = invoked /\ ci' = ci + 1)
         /\ (~(pc = "loop" /\ ci <= Len(converters)) /\ pc # "done" => invoked' = invoked) ]_vars
C2_Witness ==
  /\ pc = "done" /\ DeclaredAttr(fattrs0) = V11 /\ invoked = <<StrictVersion(V20)>>

\* C3: when the container has no declared-version attribute it is treated as
\* version 0.9: the step to 1.1 is the first one invoked, and a run that
\* returns has invoked the step to 1.1 and then the step to 2.0.
C3_AbsentIsOldest ==
  "arf_version" \notin DOMAIN fattrs0 =>
    /\ (pc \notin {"start", "loop"} \/ ci > 1) =>
          Len(invoked) >= 1 /\ invoked[1] = StrictVersion(V11)
    /\ pc = "done" => invoked = <<StrictVersion(V11), StrictVersion(V20)>>
C3_Witness ==
  /\ "arf_version" \notin DOMAIN fattrs0 /\ pc = "done"
  /\ \E e \in DOMAIN entries0 : _catalogname \in DOMAIN entries0[e].links
  /\ fattrs["arf_version"] = V20

AlreadyCurrent == DeclaredAttr(fattrs0) = V20
\* C4: a run on a container that already declares the newest version invokes
\* no step, changes no group, dataset or attribute, and reports the outcome
\* AlreadyCurrent to its caller.  (migrate_file has one way to end normally,
\* line 194-195: it prints "is up to date" and returns None whether steps ran
\* or not.)
C4_ReportsAlreadyCurrent ==
  AlreadyCurrent =>
    /\ invoked = <<>> /\ err = "none"
    /\ fattrs = fattrs0 /\ cat = cat0 /\ entries = entries0
    /\ pc = "done" => returned = "AlreadyCurrent"

\* What the code does: a run on a container that already declares the newest
\* version invokes no step and changes nothing; every run that returns
\* returns None; a run made on the container a finished run left is such a
\* run, so it leaves the container as the first run left it.
CurrentRunIsNoOp ==
  /\ AlreadyCurrent =>
       /\ invoked = <<>> /\ err = "none"
       /\ fattrs = fattrs0 /\ cat = cat0 /\ entries = entries0
  /\ pc = "done" => returned = "None"
  /\ rerun => AlreadyCurrent
RerunFinished ==
  /\ rerun /\ pc = "done" /\ returned = "None" /\ ci > Len(converters)
  /\ \E e \in DOMAIN entries : DOMAIN entries[e].links # {}

\* C5: if a step aborts with an error, the declared version still has the value
\* it had before that step began.
C5_VersionAdvancedLast ==
  (pc = "error" /\ invoked # <<>>) => DeclaredAttr(fattrs) = stepVer

ErrorEndsRun ==
  /\ err # "none" => pc = "error" /\ returned = "unset"
  /\ (pc = "error" /\ Len(invoked) = 2) =>
       /\ DeclaredAttr(fattrs) = V11
       /\ ~cat.present
       /\ DOMAIN entries = DOMAIN stepEntries
       /\ \A e \in DOMAIN entries :
            /\ entries[e].links = stepEntries[e].links
            /\ \A i \in DOMAIN entries[e].objs :
                 entries[e].objs[i].data = stepEntries[e].objs[i].data
\* C6: an error raised in a step ends the run: the caller gets the exception
\* and no return value, nothing is done after it, and when it is raised in the
\* second step the first step's version advance, the removal of the catalogs
\* and the datasets it left are still in the container.
C6_ErrorAborts ==
  /\ [](ErrorEndsRun)
  /\ [][pc = "error" => (pc' = "error" /\ invoked' = invoked /\ file' = file)]_vars
C6_Witness ==
  /\ pc = "error" /\ Len(invoked) = 2 /\ cat0.present
  /\ \E e \in DOMAIN entries0 : Cardinality(DOMAIN entries0[e].links) > 1

RateMissing(es) ==
  \E e \in DOMAIN es : \E n \in DOMAIN es[e].links :
    LET a == es[e].objs[es[e].links[n]].attrs
    IN  "units" \in DOMAIN a /\ a["units"] = Samples /\ "sampling_rate" \notin DOMAIN a
Step20Ended ==
  /\ invoked # <<>> /\ invoked[Len(invoked)] = StrictVersion(V20)
  /\ pc \in {"error", "loop", "done"}
\* C7: the step to 2.0 fails with the missing-parameter error exactly when no
\* sampling_rate was supplied and some dataset has units "samples" and no
\* sampling_rate attribute; after the failure the declared version is 1.1.
C7_MissingParameter ==
  Step20Ended =>
    /\ (pc = "error") <=> ("sampling_rate" \notin DOMAIN kwargs /\ RateMissing(stepEntries))
    /\ pc = "error" => err = "ValueError" /\ DeclaredAttr(fattrs) = V11
C7_Witness ==
  /\ Step20Ended /\ pc = "error" /\ err = "ValueError"
  /\ DeclaredAttr(fattrs0) = V10 /\ DeclaredAttr(fattrs) = V11

\* C8: after migrate_file has returned on a container of version 1.0 or lower
\* the top-level catalog is gone and no entry has a catalog child.
C8_NoCatalogLeft ==
  (pc = "done" /\ VersionLess(DeclaredVersion(fattrs0), StrictVersion(V11))) =>
    /\ ~cat.present
    /\ \A e \in DOMAIN entries : _catalogname \notin DOMAIN entries[e].links
C8_Witness ==
  /\ pc = "done" /\ VersionLess(DeclaredVersion(fattrs0), StrictVersion(V11))
  /\ \E e \in DOMAIN entries0 : DOMAIN entries0[e].links = {_catalogname}
  /\ \E e \in DOMAIN entries0 :
       _catalogname \in DOMAIN entries0[e].links /\ Cardinality(DOMAIN entries0[e].links) > 1

RowNode(r) == IF "node" \in DOMAIN r THEN r.node ELSE r.table
WideCase(e0, w) ==
  /\ w \in DOMAIN e0.links /\ _catalogname \in DOMAIN e0.links /\ w # _catalogname
  /\ LET src == e0.objs[e0.links[w]]
         rows == e0.objs[e0.links[_catalogname]].rows
     IN  /\ src.kind = "array" /\ src.ndim = 2 /\ Len(src.data) > 0
         /\ Len(src.data[1]) > 1
         /\ Len(rows) = Len(src.data[1])
         /\ \A i \in DOMAIN rows : RowNode(rows[i]) = w /\ rows[i].column = i - 1
Step11Returned == invoked # <<>> /\ invoked[1] = StrictVersion(V11) /\ ci >= 2
\* C9: for a wide sampled dataset with N columns and a catalog of N rows, row i
\* referencing column i, once the step to 1.1 has returned the entry's children
\* are N one-dimensional datasets named by the rows, dataset i holds column i
\* of the original array (so together, in column order, they give back the
\* array), and each has the sampling_rate of the source.
C9_ColumnSplit ==
  Step11Returned =>
    \A e \in DOMAIN entries0 : \A w \in DOMAIN entries0[e].links :
      WideCase(entries0[e], w) =>
        LET src == entries0[e].objs[entries0[e].links[w]]
            rows == entries0[e].objs[entries0[e].links[_catalogname]].rows
            now == entries[e]
            dset(i) == now.objs[now.links[rows[i].name]]
        IN  /\ DOMAIN now.links = {rows[i].name : i \in DOMAIN rows}
            /\ Cardinality(DOMAIN now.links) = Len(rows)
            /\ \A i \in DOMAIN rows :
                 /\ dset(i).kind = "array" /\ dset(i).ndim = 1
                 /\ dset(i).data = [t \in 1..Len(src.data) |-> <<src.data[t][i]>>]
                 /\ "sampling_rate" \in DOMAIN dset(i).attrs
                 /\ dset(i).attrs["sampling_rate"] = src.attrs["sampling_rate"]
            /\ [t \in 1..Len(src.data) |-> [c \in DOMAIN rows |-> dset(c).data[t][1]]] = src.data
C9_Witness ==
  /\ Step11Returned
  /\ \E e \in DOMAIN entries0 : \E w \in DOMAIN entries0[e].links :
       /\ WideCase(entries0[e], w)
       /\ <<"mic">> \in DOMAIN entries[e].links /\ <<"lfp">> \in DOMAIN entries[e].links

Step20Returned ==
  /\ invoked # <<>> /\ invoked[Len(invoked)] = StrictVersion(V20)
  /\ pc \in {"loop", "done"}
HadUuid(e) == "uuid" \in DOMAIN stepEntries[e].attrs
\* C10: once the step to 2.0 has returned every entry has a uuid attribute; an
\* entry that had one when the step began has the same value; two entries
\* that had none have different values.
C10_Uuid ==
  Step20Returned =>
    /\ DOMAIN entries = DOMAIN stepEntries
    /\ \A e \in DOMAIN entries :
         /\ "uuid" \in DOMAIN entries[e].attrs
         /\ HadUuid(e) => entries[e].attrs["uuid"] = stepEntries[e].attrs["uuid"]
    /\ \A e1, e2 \in DOMAIN entries :
         (e1 # e2 /\ ~HadUuid(e1) /\ ~HadUuid(e2)) =>
            entries[e1].attrs["uuid"] # entries[e2].attrs["uuid"]
C10_Witness ==
  /\ Step20Returned /\ pc = "done"
  /\ \E e1, e2 \in DOMAIN entries : e1 # e2 /\ ~HadUuid(e1) /\ ~HadUuid(e2)

\* The names PyTables leaves on a node of the kind of the dataset o: an array
\* is a carray or an earray
KindNames(o) ==
  IF o.kind = "vlarray" THEN _pytables_attributes["vlarray"]
  ELSE IF o.kind = "table" THEN _pytables_attributes["table"]
  ELSE _pytables_attributes["carray"] \cup _pytables_attributes["earray"]
\* The attributes of before whose name is not in removed are in after, with
\* the value they had
Kept(before, after, removed) ==
  \A a \in (DOMAIN before) \ removed : a \in DOMAIN after /\ after[a] = before[a]
\* C11 (as stated): once the step to 2.0 has returned, an attribute of the
\* file, of an entry or of a dataset whose name is not in the set of the
\* node's own kind has the name and the value it had when the step began (the
\* file's arf_version aside, which the step writes).
C11_PerKind ==
  Step20Returned =>
    /\ Kept(stepFattrs, fattrs, _pytables_attributes["file"] \cup {"arf_version"})
    /\ \A e \in DOMAIN entries :
         /\ Kept(stepEntries[e].attrs, entries[e].attrs, _pytables_attributes["group"])
         /\ \A d \in DOMAIN entries[e].objs :
              Kept(stepEntries[e].objs[d].attrs, entries[e].objs[d].attrs,
                   KindNames(stepEntries[e].objs[d]))

\* C11 (amended): once the step to 2.0 has returned, no attribute of the file,
\* of an entry or of a dataset has a name that is in the set of any kind of
\* node; every other attribute the node had when the step began has its name
\* and value (the file's arf_version aside), and the only names the step adds
\* are uuid on an entry and sampling_rate on a dataset.
C11_Stripped ==
  Step20Returned =>
    /\ DOMAIN fattrs = ((DOMAIN stepFattrs) \ pyt_attr_names) \cup {"arf_version"}
    /\ Kept(stepFattrs, fattrs, pyt_attr_names \cup {"arf_version"})
    /\ DOMAIN entries = DOMAIN stepEntries
    /\ \A e \in DOMAIN entries :
         /\ DOMAIN entries[e].attrs = ((DOMAIN stepEntries[e].attrs) \ pyt_attr_names) \cup {"uuid"}
         /\ Kept(stepEntries[e].attrs, entries[e].attrs, pyt_attr_names)
         /\ entries[e].links = stepEntries[e].links
         /\ DOMAIN entries[e].objs = DOMAIN stepEntries[e].objs
         /\ \A d \in DOMAIN entries[e].objs :
              /\ (DOMAIN stepEntries[e].objs[d].attrs) \ pyt_attr_names
                    \subseteq DOMAIN entries[e].objs[d].attrs
              /\ DOMAIN entries[e].objs[d].attrs
                    \subseteq ((DOMAIN stepEntries[e].objs[d].attrs) \ pyt_attr_names)
                                 \cup {"sampling_rate"}
              /\ Kept(stepEntries[e].objs[d].attrs, entries[e].objs[d].attrs, pyt_attr_names)
C11_Witness ==
  /\ Step20Returned /\ pc = "done"
  /\ "PYTABLES_FORMAT_VERSION" \in DOMAIN stepFattrs /\ "lab" \in DOMAIN fattrs
  /\ \E e \in DOMAIN entries :
       /\ "CLASS" \in DOMAIN stepEntries[e].attrs /\ "comment" \in DOMAIN entries[e].attrs
       /\ \E d \in DOMAIN entries[e].objs :
            /\ "EXTDIM" \in DOMAIN stepEntries[e].objs[d].attrs
            /\ "gain" \in DOMAIN entries[e].objs[d].attrs

CountsSamples(attrs) == "units" \in DOMAIN attrs /\ attrs["units"] = Str(<<"samples">>)
\* C12: when a sampling_rate was supplied, once the step to 2.0 has returned
\* every dataset whose units are "samples" has a sampling_rate: the supplied
\* number, as a float, when it had none when the step began, and the value it
\* had otherwise; a dataset with other units or without units has a
\* sampling_rate exactly if it had one, with the same value.
C12_Backfill ==
  (Step20Returned /\ "sampling_rate" \in DOMAIN kwargs) =>
    \A e \in DOMAIN entries : \A d \in DOMAIN entries[e].objs :
      LET before == stepEntries[e].objs[d].attrs
          after == entries[e].objs[d].attrs
      IN  /\ CountsSamples(before) => "sampling_rate" \in DOMAIN after
          /\ "sampling_rate" \in DOMAIN before =>
                "sampling_rate" \in DOMAIN after /\ after["sampling_rate"] = before["sampling_rate"]
          /\ (CountsSamples(before) /\ "sampling_rate" \notin DOMAIN before) =>
                /\ after["sampling_rate"][1] = "float"
                /\ after["sampling_rate"][2] = kwargs["sampling_rate"][2]
          /\ (~CountsSamples(before) /\ "sampling_rate" \notin DOMAIN before) =>
                "sampling_rate" \notin DOMAIN after
C12_Witness ==
  /\ Step20Returned /\ pc = "done" /\ "sampling_rate" \in DOMAIN kwargs
  /\ \E e1, e2 \in DOMAIN entries : \E d1 \in DOMAIN entries[e1].objs, d2 \in DOMAIN entries[e2].objs :
       /\ CountsSamples(stepEntries[e1].objs[d1].attrs)
       /\ "sampling_rate" \notin DOMAIN stepEntries[e1].objs[d1].attrs
       /\ entries[e1].objs[d1].attrs["sampling_rate"] = <<"float", "2">>
       /\ CountsSamples(stepEntries[e2].objs[d2].attrs)
       /\ entries[e2].objs[d2].attrs["sampling_rate"] = Rate

\* The attributes a step writes itself, at each level
FileWritten == {"arf_version", "database_class", "database_uri"} \cup pyt_attr_names
EntryWritten ==
  {"recid", "animal", "experimenter", "protocol", "timestamp", "recuri", "uuid"} \cup pyt_attr_names
DsetWritten == {"datatype", "units"} \cup pyt_attr_names
LegacyRun == VersionLess(DeclaredVersion(fattrs0), StrictVersion(V11))
Decodable(v) == IsPickled(v) /\ Loads(v).ok
\* The attributes of before with a decodable pickled value are in after, decoded
DecodedIn(before, after, written) ==
  \A a \in (DOMAIN before) \ written :
    Decodable(before[a]) => a \in DOMAIN after /\ after[a] = Loads(before[a]).val
\* The rows of the catalog of the legacy entry e0 that the step projects:
\* none when the entry has no catalog or nothing but a catalog (line 77-83)
RowsOf(e0) ==
  IF _catalogname \in DOMAIN e0.links /\ Cardinality(DOMAIN e0.links) > 1
    THEN e0.objs[e0.links[_catalogname]].rows ELSE <<>>
\* C13: when migrate_file has returned on a legacy container, every attribute
\* of the file, of an entry and of a dataset a catalog row refers to whose
\* legacy value was a decodable pickled string has the decoded value, on the
\* file, on the entry (with or without catalog, with or without datasets) and
\* on the dataset the row produced.
C13_PickledDecoded ==
  (pc = "done" /\ LegacyRun) =>
    /\ DecodedIn(fattrs0, fattrs, FileWritten)
    /\ \A e \in DOMAIN entries0 :
         /\ DecodedIn(entries0[e].attrs, entries[e].attrs, EntryWritten)
         /\ \A r \in DOMAIN RowsOf(entries0[e]) :
              LET rr == RowsOf(entries0[e])[r]
                  old == entries0[e].objs[entries0[e].links[RowNode(rr)]]
                  new == entries[e].objs[entries[e].links[rr.name]]
              IN  DecodedIn(old.attrs, new.attrs, DsetWritten)
\* (what holds: the same for the file, for the datasets, and for the entries
\* that have a catalog and at least one other child)
PickledDecodedWhereReconciled ==
  (pc = "done" /\ LegacyRun) =>
    /\ DecodedIn(fattrs0, fattrs, FileWritten)
    /\ \A e \in DOMAIN entries0 :
         /\ (_catalogname \in DOMAIN entries0[e].links
               /\ Cardinality(DOMAIN entries0[e].links) > 1) =>
               DecodedIn(entries0[e].attrs, entries[e].attrs, EntryWritten)
         /\ \A r \in DOMAIN RowsOf(entries0[e]) :
              LET rr == RowsOf(entries0[e])[r]
                  old == entries0[e].objs[entries0[e].links[RowNode(rr)]]
                  new == entries[e].objs[entries[e].links[rr.name]]
              IN  DecodedIn(old.attrs, new.attrs, DsetWritten)

\* The attributes of before whose value is not pickled are in after, with the
\* value they had
PlainKept(before, after, written) ==
  \A a \in (DOMAIN before) \ written :
    ~IsPickled(before[a]) => a \in DOMAIN after /\ after[a] = before[a]
\* C14: when migrate_file has returned on a legacy container, every attribute
\* of a legacy entry, and of a legacy dataset a catalog row refers to, whose
\* value is not pickled is on the migrated entry, and on the dataset the row
\* produced (converted, split or renamed), with the same value, unless a step
\* writes an attribute of that name.
C14_NonPickledKept ==
  (pc = "done" /\ LegacyRun) =>
    \A e \in DOMAIN entries0 :
      /\ PlainKept(entries0[e].attrs, entries[e].attrs, EntryWritten)
      /\ \A r \in DOMAIN RowsOf(entries0[e]) :
           LET rr == RowsOf(entries0[e])[r]
               old == entries0[e].objs[entries0[e].links[RowNode(rr)]]
               new == entries[e].objs[entries[e].links[rr.name]]
           IN  PlainKept(old.attrs, new.attrs, DsetWritten)
\* (what holds: the same for the entries, and for the datasets that are renamed)
NonPickledKeptWhereRenamed ==
  (pc = "done" /\ LegacyRun) =>
    \A e \in DOMAIN entries0 :
      /\ PlainKept(entries0[e].attrs, entries[e].attrs, EntryWritten)
      /\ \A r \in DOMAIN RowsOf(entries0[e]) :
           LET rr == RowsOf(entries0[e])[r]
               old == entries0[e].objs[entries0[e].links[RowNode(rr)]]
               new == entries[e].objs[entries[e].links[rr.name]]
               p == dataset_properties(old)
           IN  (p[2] # "vlarray" /\ ~(p[1] = "sampled" /\ p[3] > 1)) =>
                 PlainKept(old.attrs, new.attrs, DsetWritten)

\* The row of the top-level catalog the run started with that lists entry e
CatalogRowOf(e) == cat0.rows[CHOOSE n \in DOMAIN cat0.rows : cat0.rows[n].name = e]
\* C15: once the step to 1.1 has returned on a legacy container, and from then
\* on to the end of the run, every entry has a timestamp attribute that is the
\* pair (seconds, microseconds) made of the timestamp field of the entry's row
\* of the top-level catalog and of its timestamp_m field, 0 when the catalog
\* has no such field, whatever timestamp attribute the entry had before; the
\* step to 2.0 leaves the timestamp of every entry as it found it.
C15_Timestamp ==
  /\ (LegacyRun /\ Step11Returned) =>
        \A e \in DOMAIN entries :
          LET r == CatalogRowOf(e) IN
            /\ "timestamp" \in DOMAIN entries[e].attrs
            /\ entries[e].attrs["timestamp"] =
                  <<"pair", r.timestamp[2],
                    IF "timestamp_m" \in DOMAIN r THEN r.timestamp_m[2] ELSE "0">>
  /\ Step20Ended =>
        \A e \in DOMAIN entries :
          /\ "timestamp" \in DOMAIN entries[e].attrs <=> "timestamp" \in DOMAIN stepEntries[e].attrs
          /\ "timestamp" \in DOMAIN entries[e].attrs =>
                entries[e].attrs["timestamp"] = stepEntries[e].attrs["timestamp"]
C15_Witness ==
  /\ pc = "done" /\ LegacyRun /\ Step20Ended
  /\ \E e1, e2 \in DOMAIN entries :
       /\ e1 # e2
       /\ "timestamp" \in DOMAIN entries0[e1].attrs
       /\ entries0[e1].attrs["timestamp"] = IntV("9")
       /\ entries[e1].attrs["timestamp"] = <<"pair", "7", "3">>
       /\ _catalogname \notin DOMAIN entries0[e1].links
       /\ Cardinality(DOMAIN entries0[e2].links) > 1
       /\ entries[e2].attrs["timestamp"] = <<"pair", "7", "3">>

\* The file at the path migrate_file was called with
OriginalContainer ==
  IF opened = NoneV \/ opened = InputPath
    THEN Container(fattrs, cat, entries) ELSE disk[InputPath]
\* C16: when newname is given, the file that is opened and edited is the one
\* at newname, and at every point of the run, whether it ends by returning or
\* by an error in a step, the file at the input path has the attributes,
\* the catalog, the groups and the datasets (so also the declared version) it
\* had when migrate_file was called.
C16_OriginalUntouched ==
  newname # NoneV =>
    /\ opened # NoneV => opened = newname /\ InputPath \in DOMAIN disk
    /\ OriginalContainer = Container(fattrs0, cat0, entries0)
C16_Witness ==
  /\ newname = CopyPath /\ opened = CopyPath /\ pc = "error" /\ Len(invoked) = 2
  /\ entries # entries0 /\ ~cat.present /\ disk[InputPath].cat.present
  /\ DeclaredAttr(fattrs) = V11 /\ DeclaredAttr(disk[InputPath].fattrs) = V10

\* ---- delete_entries, update_entries, copy_entries, check_entry_consistency
Finished(fn) == called = fn /\ pc \in {"done", "error"}
Named == IF arglist = NoneV THEN {} ELSE Range(arglist)

\* C17: when delete_entries has ended, the file holds exactly the entries it
\* held that are not named in the list, each as it was; when no named entry
\* existed no error was raised and the file is as it was; and the file was
\* repacked exactly when a named entry existed and the option repack is set.
C17_Delete ==
  Finished("delete_entries") =>
    /\ DOMAIN entries = (DOMAIN entries0) \ Named
    /\ \A e \in DOMAIN entries : entries[e] = entries0[e]
    /\ Named \cap DOMAIN entries0 = {} => err = "none" /\ pc = "done" /\ entries = entries0
    /\ repacked <=> (Named \cap DOMAIN entries0 # {} /\ kwargs.repack)
\* The same, when the loop of line 295 has ended, and when the call has ended
\* without the file being replaced by the output of h5repack
DeleteBeforeRepack ==
  (called = "delete_entries" /\ \/ pc = "del_loop" /\ it = <<>>
                                \/ Finished("delete_entries") /\ (~repacked \/ err = "IOError")) =>
    /\ DOMAIN entries = (DOMAIN entries0) \ Named
    /\ \A e \in DOMAIN entries : entries[e] = entries0[e]
    /\ Named \cap DOMAIN entries0 = {} => err = "none" /\ entries = entries0
    /\ Finished("delete_entries") =>
         (repacked <=> (Named \cap DOMAIN entries0 # {} /\ kwargs.repack))
\* The call ended without an exception and an entry that was not named is gone
RepackLostEntry ==
  /\ Finished("delete_entries") /\ pc = "done" /\ repacked
  /\ ((DOMAIN entries0) \ Named) \ DOMAIN entries # {}
C17_Witness ==
  /\ Finished("delete_entries") /\ repacked
  /\ Named \cap DOMAIN entries0 # {} /\ Named \ DOMAIN entries0 # {}
  /\ DOMAIN entries # {}

Updated(e0) == [e0 EXCEPT !.attrs = set_attributes(@, kwargs.entry_attrs)]
UpdatedIn(es, e0) == \E n \in DOMAIN es : es[n] = Updated(e0)

\* C18: when update_entries has ended, called with a list of names, every
\* entry named in the list carries the supplied attributes and every other
\* entry is as it was; called with None or an empty list, every entry carries
\* the supplied attributes; called with names none of which exists, the
\* entries and their names are as they were.
C18_Update ==
  Finished("update_entries") =>
    IF NoneOrEmpty(arglist)
      THEN /\ Cardinality(DOMAIN entries) = Cardinality(DOMAIN entries0)
           /\ \A e \in DOMAIN entries0 : UpdatedIn(entries, entries0[e])
      ELSE /\ \A e \in (DOMAIN entries0) \cap Named : UpdatedIn(entries, entries0[e])
           /\ \A e \in (DOMAIN entries0) \ Named :
                e \in DOMAIN entries /\ entries[e] = entries0[e]
           /\ Named \cap DOMAIN entries0 = {} => entries = entries0

\* The same, for the calls without the option entry_base
UpdateWithoutEntryBase ==
  (Finished("update_entries") /\ kwargs.entry_base = NoneV) => C18_Update

RECURSIVE Expand(_)
Expand(args) == IF args = <<>> THEN <<>> ELSE Requested(disk, Head(args)) \o Expand(Tail(args))
Wanted == Expand(arglist)
Clashes ==
  {n \in DOMAIN Wanted : Wanted[n][2] \in (DOMAIN entries0) \cup {Wanted[j][2] : j \in 1..(n - 1)}}
Numbered(k) == kwargs.entry_base \o <<"_">> \o Pad4(k)

\* when copy_entries has ended without entry_base and the name of an entry to
\* copy existed in the target, an error was raised and the entries before
\* that one are in the target
CopyCollision ==
  (Finished("copy_entries") /\ kwargs.entry_base = NoneV /\ Clashes # {}) =>
    /\ pc = "error" /\ err \in NameExists
    /\ \A n \in DOMAIN Wanted : (\A c \in Clashes : n < c) =>
         /\ Wanted[n][2] \in DOMAIN entries
         /\ entries[Wanted[n][2]] = disk[Wanted[n][1]].entries[Wanted[n][2]]

\* when copy_entries has ended with entry_base, the entries added are named
\* base_NNNN with the numbers that follow the number of entries the target
\* had, one for each entry to copy unless the target held such a name; and
\* arguments that name nothing that exists leave the target as it was
CopyNaming ==
  Finished("copy_entries") =>
    /\ kwargs.entry_base # NoneV =>
         LET n0 == Cardinality(DOMAIN entries0)
             n1 == Cardinality(DOMAIN entries)
         IN  /\ (DOMAIN entries) \ (DOMAIN entries0) = {Numbered(k) : k \in n0..(n1 - 1)}
             /\ (\A k \in n0..(n0 + Len(Wanted) - 1) : Numbered(k) \notin DOMAIN entries0)
                  => (n1 = n0 + Len(Wanted) /\ err = "none")
    /\ Wanted = <<>> => (entries = entries0 /\ err = "none")

\* C19: copy_entries without entry_base raises an error when the name of a
\* copied entry exists in the target, and keeps the entries copied before;
\* with entry_base the copies are named base_NNNN by the number of entries of
\* the target, so that copying a file twice adds two entries; arguments that
\* name no file or entry add nothing.
C19_Copy == CopyCollision /\ CopyNaming

Groups(keep(_)) == SelectSeq(keyorder, LAMBDA n : n \in DOMAIN entries /\ keep(n))
InList(n) == n \in Named
Consistent(ns) ==
  /\ \A n \in ns : Cardinality(sample_counts(channel_properties(entries[n], NoneV, "any_type"))) <= 1
  /\ \A n, m \in ns :
       Popped(channel_properties(entries[n], NoneV, "any_type"))
         = Popped(channel_properties(entries[m], NoneV, "any_type"))

\* C20: when check_entry_consistency, called with a list of names, has
\* returned: a returned list of names holds exactly the groups of the file
\* that are named in the list, in order of creation; and the check succeeds
\* whenever the groups named in the list are consistent, whatever the other
\* entries hold.
C20_Restrict ==
  (Finished("check_entry_consistency") /\ arglist # NoneV) =>
    /\ returned = "tuple" => entry_names = Groups(InList)
    /\ Consistent(Range(Groups(InList))) => returned = "tuple"

\* What line 76 does: the groups named in the list are the ones left out
NotInList(n) == arglist = NoneV \/ n \notin Range(arglist)
CheckSkipsListed ==
  Finished("check_entry_consistency") =>
    /\ returned = "tuple" => entry_names = Groups(NotInList)
    /\ Consistent(Range(Groups(NotInList))) <=> returned = "tuple"

\* ---- the step to 1.1, entry by entry
Step11Running == invoked = <<StrictVersion(V11)>> /\ ci = 1
\* The names the step gives the children of the entry e0: the logical names of
\* the rows of its catalog; its own names when it has no catalog
FinalNames(e0) ==
  IF _catalogname \in DOMAIN e0.links
    THEN {RowsOf(e0)[n].name : n \in DOMAIN RowsOf(e0)}
    ELSE DOMAIN e0.links

\* C21: in every state of the step to 1.1, the exception states included, the
\* children of each entry are all under the names they had when the step
\* began or all under their final logical names.
C21_NoMix ==
  Step11Running =>
    \A e \in DOMAIN entries :
      \/ DOMAIN entries[e].links = DOMAIN stepEntries[e].links
      \/ DOMAIN entries[e].links = FinalNames(stepEntries[e])

\* The entry whose rows are being projected: every child has its temporary
\* name, and the run is in the row loop or was ended there by an exception
InRows ==
  /\ Step11Running /\ cur \in DOMAIN entries /\ pending = {}
  /\ pc = "c11_rows" \/ (pc = "error" /\ ri <= Len(ccat))
Temporaries(e0) == {TmpName(n) : n \in DOMAIN e0.links}

\* C22: for an entry with a catalog and other children, while the children
\* are renamed no final name exists yet and each temporary name is new to the
\* entry; while the rows are projected, and when a row has failed, every
\* child the entry had is there under its temporary name, and the other names
\* are the logical names of the rows projected so far; a row that kept its
\* node is a link to the node its temporary names.
C22_Temporaries ==
  /\ (Step11Running /\ pc = "c11_rename") =>
       LET e0 == stepEntries[cur] IN
         /\ Temporaries(e0) \cap ((DOMAIN e0.links) \cup FinalNames(e0)) = {}
         /\ Cardinality(Temporaries(e0)) = Cardinality(DOMAIN e0.links)
         /\ \A n \in DOMAIN e0.links :
              IF n \in pending
                THEN n \in DOMAIN entries[cur].links /\ entries[cur].links[n] = e0.links[n]
                ELSE /\ n \notin DOMAIN entries[cur].links
                     /\ TmpName(n) \in DOMAIN entries[cur].links
                     /\ entries[cur].links[TmpName(n)] = e0.links[n]
         /\ DOMAIN entries[cur].links \subseteq (DOMAIN e0.links) \cup Temporaries(e0)
  /\ InRows =>
       LET e0 == stepEntries[cur]
           now == entries[cur]
           made == (DOMAIN now.links) \ Temporaries(e0)
       IN  /\ \A n \in DOMAIN e0.links :
                /\ TmpName(n) \in DOMAIN now.links
                /\ now.links[TmpName(n)] = e0.links[n]
                /\ now.objs[e0.links[n]].data = e0.objs[e0.links[n]].data
           /\ {ccat[j].name : j \in {x \in DOMAIN ccat : x < ri}} \subseteq made
           /\ made \subseteq {ccat[j].name : j \in {x \in DOMAIN ccat : x <= ri}}
           /\ \A j \in {x \in DOMAIN ccat : x < ri} :
                LET p == dataset_properties(e0.objs[e0.links[RowNode(ccat[j])]])
                IN  (p[2] # "vlarray" /\ p[3] <= 1) =>
                      now.links[ccat[j].name] = e0.links[RowNode(ccat[j])]
C22_Witness ==
  /\ InRows /\ pc = "error" /\ ri > 1
  /\ Cardinality(Temporaries(stepEntries[cur])) > 1
  /\ Temporaries(stepEntries[cur]) \subseteq DOMAIN entries[cur].links

CatalogGone(e) ==
  /\ _catalogname \in DOMAIN stepEntries[e].links
  /\ _catalogname \notin DOMAIN entries[e].links
  /\ TmpName(_catalogname) \notin DOMAIN entries[e].links
\* C23: in the step to 1.1, once the top-level catalog is deleted every row
\* of it has been handled, and once the catalog of an entry is deleted the
\* entry has a dataset under the logical name of every row of that catalog.
C23_CatalogLast ==
  Step11Running =>
    /\ (cat0.present /\ ~cat.present) => ei > Len(cat0.rows)
    /\ \A e \in DOMAIN entries :
         CatalogGone(e) =>
           LET e0 == stepEntries[e]
               rows == e0.objs[e0.links[_catalogname]].rows
           IN  \A j \in DOMAIN rows : rows[j].name \in DOMAIN entries[e].links

\* The same, for the entries that have a child beside their catalog
CatalogLastWhereChildren ==
  Step11Running =>
    /\ (cat0.present /\ ~cat.present) => ei > Len(cat0.rows)
    /\ \A e \in DOMAIN entries :
         (CatalogGone(e) /\ Cardinality(DOMAIN stepEntries[e].links) > 1) =>
           \A j \in DOMAIN RowsOf(stepEntries[e]) :
             RowsOf(stepEntries[e])[j].name \in DOMAIN entries[e].links

\* The data the row r of the catalog of the legacy entry e0 stands for
RowData(e0, r) ==
  LET src == e0.objs[e0.links[RowNode(r)]]
      p == dataset_properties(src)
  IN  IF p[1] = "event" /\ p[2] = "vlarray"
        THEN [t \in DOMAIN src.data[r.column + 1] |-> <<src.data[r.column + 1][t]>>]
      ELSE IF p[1] = "sampled" /\ p[3] > 1
        THEN [t \in DOMAIN src.data |-> <<src.data[t][r.column + 1]>>]
      ELSE src.data
\* The row being projected has the logical name of an earlier row
SameNameAgain ==
  /\ InRows /\ ri \in DOMAIN ccat
  /\ \E j \in 1..(ri - 1) : ccat[j].name = ccat[ri].name
\* C24: when two rows of an entry's catalog have the same logical name the
\* step to 1.1 does not fail on the second of them, and once the step has
\* returned the dataset under that name holds the data of the later row.
C24_LaterWins ==
  /\ SameNameAgain => ~(pc = "error" /\ err = "NameExists")
  /\ Step11Returned =>
       \A e \in DOMAIN stepEntries :
         LET rows == RowsOf(stepEntries[e])
         IN  \A j \in DOMAIN rows :
               (/\ \E i \in 1..(j - 1) : rows[i].name = rows[j].name
                /\ \A i \in DOMAIN rows : i > j => rows[i].name # rows[j].name)
                 => /\ rows[j].name \in DOMAIN entries[e].links
                    /\ entries[e].objs[entries[e].links[rows[j].name]].data
                         = RowData(stepEntries[e], rows[j])
\* No step to 1.1 returns on an entry it projects whose catalog has two rows
\* of one logical name
DuplicateNeverReturns ==
  Step11Returned =>
    \A e \in DOMAIN stepEntries :
      \A i, j \in DOMAIN RowsOf(stepEntries[e]) :
        RowsOf(stepEntries[e])[i].name = RowsOf(stepEntries[e])[j].name => i = j

\* The shape by which line 100-119 handles the node of the row r
RowShape(e0, r) ==
  LET p == dataset_properties(e0.objs[e0.links[RowNode(r)]])
  IN  IF p[1] = "event" /\ p[2] = "vlarray" THEN "vlarray"
      ELSE IF p[1] = "sampled" /\ p[3] > 1 THEN "split" ELSE "rename"
\* C25: once the step to 1.1 has returned, every row of a projected catalog
\* has a dataset under its logical name: for a variable-length node a new
\* one-dimensional array with the events of the row's column, for a sampled
\* array of several columns a new one-dimensional array with the row's column,
\* for every other node the node itself; the dataset has the units of the row
\* and its datatype, UNDEFINED when the catalog has no datatype field.
C25_ByShape ==
  Step11Returned =>
    \A e \in DOMAIN stepEntries :
      LET e0 == stepEntries[e]
          rows == RowsOf(e0)
      IN  \A j \in DOMAIN rows :
            LET r == rows[j]
                src == e0.objs[e0.links[RowNode(r)]]
                shape == RowShape(e0, r)
            IN  /\ r.name \in DOMAIN entries[e].links
                /\ LET new == entries[e].objs[entries[e].links[r.name]]
                   IN  /\ new.data = RowData(e0, r)
                       /\ shape # "rename" =>
                            /\ new.kind = "array" /\ new.ndim = 1
                            /\ entries[e].links[r.name] # e0.links[RowNode(r)]
                       /\ shape = "rename" =>
                            /\ new.kind = src.kind /\ new.ndim = src.ndim
                            /\ new.rows = src.rows
                            /\ entries[e].links[r.name] = e0.links[RowNode(r)]
                       /\ "units" \in DOMAIN new.attrs /\ new.attrs.units = r.units
                       /\ "datatype" \in DOMAIN new.attrs
                       /\ new.attrs.datatype =
                            (IF "datatype" \in DOMAIN r THEN r.datatype ELSE UNDEFINED)
\* A step to 1.1 has returned on an entry with a row over a variable-length
\* node and a row over a node that is renamed
C25_Witness ==
  /\ Step11Returned
  /\ \E e \in DOMAIN stepEntries :
       LET rows == RowsOf(stepEntries[e])
       IN  /\ \E j \in DOMAIN rows : RowShape(stepEntries[e], rows[j]) = "vlarray"
           /\ \E j \in DOMAIN rows : RowShape(stepEntries[e], rows[j]) = "rename"
\* ... on an entry of the 0.9 schema (no datatype field) with a row over a
\* sampled array of several columns
SplitWithoutDatatype ==
  /\ Step11Returned
  /\ \E e \in DOMAIN stepEntries :
       LET rows == RowsOf(stepEntries[e])
       IN  \E j \in DOMAIN rows :
             /\ "datatype" \notin DOMAIN rows[j]
             /\ RowShape(stepEntries[e], rows[j]) = "split"

\* ------------------------------------------------ unpickle_attrs by itself
\* unpickle_attrs(attrs, old_attrs) called on attribute sets of at most
\* MaxKeys keys: fattrs is the target (written in place), fattrs0 the target
\* as it was when the function was called, arglist holds old_attrs (nothing
\* when the parameter is left at None).
MaxKeys == 2
\* a number, a string, a pickled number, a pickle of None (which h5py cannot
\* store), a string that ends in '.' and is no pickle
AttrMaps ==
  LET AttrKeys == {<<"gain", "offset", "notes", "site">>[n] : n \in 1..MaxKeys}
      AttrValues == {IntV("3"), MilliVolt, PickledInt, Str(<<"N", ".">>), Str(<<"x", ".">>)}
  IN  UNION {[ks -> AttrValues] : ks \in SUBSET AttrKeys}
InitUnpickle ==
  \E a \in AttrMaps : \E args \in {<<>>} \cup {<<o>> : o \in AttrMaps} :
    /\ fattrs = a /\ fattrs0 = a /\ arglist = args
    /\ called = "unpickle_attrs" /\ pc = "unpickle_attrs" /\ err = "none"
    /\ returned = "unset" /\ kwargs = EmptyMap
    /\ cat = NoCatalog /\ cat0 = NoCatalog /\ entries = EmptyMap /\ entries0 = EmptyMap
    /\ newname = NoneV /\ opened = NoneV /\ disk = EmptyMap
    /\ ci = 1 /\ invoked = <<>> /\ stepVer = NoneV
    /\ stepFattrs = EmptyMap /\ stepEntries = EmptyMap /\ rerun = FALSE
    /\ recuri = NoneV /\ ei = 1 /\ cur = "" /\ ccat = <<>> /\ pending = {}
    /\ old_nodes = {} /\ ri = 1 /\ pendingE = {} /\ nextUuid = 0
    /\ keyorder = <<>> /\ it = <<>> /\ taken = 0 /\ fi = 1 /\ count = 0
    /\ repacked = FALSE /\ entry_names = <<>> /\ channel_props = <<>> /\ ebase = NoneV
    /\ main = <<>>
\* line 26-42: the whole call
UnpickleCall ==
  /\ pc = "unpickle_attrs"
  /\ \E u \in unpickle_attrs(fattrs, IF arglist = <<>> THEN EmptyMap ELSE arglist[1]) :
       /\ fattrs' = u.attrs
       /\ IF u.raised THEN Raise("TypeError") ELSE pc' = "done" /\ err' = err
  /\ UNCHANGED <<main, cat, entries, start, paths, locals, arglist, keyorder, it, taken, fi, count,
                 repacked, entry_names, channel_props, called, ebase, ci, invoked, stepVer,
                 stepFattrs, stepEntries, nextUuid>>
SpecUnpickle == InitUnpickle /\ [][UnpickleCall]_vars

\* unpickle_attrs has ended (returned or raised); the legacy source it was given
UnpickleEnded == called = "unpickle_attrs" /\ pc \in {"done", "error"}
OldAttrs == IF arglist = <<>> THEN EmptyMap ELSE arglist[1]
\* C26: when unpickle_attrs(attrs, old_attrs) has ended, every key that was on
\* both is on the target with the target's own former value, or with the
\* decoding of that value when it was pickled; the legacy value is not used.
C26_TargetWins ==
  UnpickleEnded =>
    \A k \in (DOMAIN fattrs0) \cap (DOMAIN OldAttrs) :
      /\ k \in DOMAIN fattrs
      /\ \/ fattrs[k] = fattrs0[k]
         \/ IsPickled(fattrs0[k]) /\ Loads(fattrs0[k]).ok /\ fattrs[k] = Loads(fattrs0[k]).val
\* unpickle_attrs returned on a target and a legacy source that have a key in
\* common, with a plain value on the target and a decodable pickle on the source
C26_Witness ==
  /\ UnpickleEnded /\ pc = "done"
  /\ \E k \in (DOMAIN fattrs0) \cap (DOMAIN OldAttrs) :
       /\ ~IsPickled(fattrs0[k]) /\ OldAttrs[k] = PickledInt
       /\ fattrs[k] = fattrs0[k]
  /\ \E k \in (DOMAIN OldAttrs) \ (DOMAIN fattrs0) : k \in DOMAIN fattrs

LegacyOnly == (DOMAIN OldAttrs) \ (DOMAIN fattrs0)
\* C27: when unpickle_attrs(attrs, old_attrs) has returned, every key that was
\* on the legacy source and not on the target is on the target, with the
\* decoded value when the legacy value is a decodable pickle and with the
\* legacy value itself when it is not pickled.
C27_LegacyCopied ==
  (UnpickleEnded /\ pc = "done") =>
    \A k \in LegacyOnly :
      /\ Decodable(OldAttrs[k]) => k \in DOMAIN fattrs /\ fattrs[k] = Loads(OldAttrs[k]).val
      /\ ~IsPickled(OldAttrs[k]) => k \in DOMAIN fattrs /\ fattrs[k] = OldAttrs[k]
\* What the call does with the legacy-only keys: the decodable pickles arrive
\* decoded, every other key is left out
LegacyOnlyDecodedOrLeftOut ==
  (UnpickleEnded /\ pc = "done") =>
    \A k \in LegacyOnly :
      IF Decodable(OldAttrs[k])
        THEN k \in DOMAIN fattrs /\ fattrs[k] = Loads(OldAttrs[k]).val
        ELSE k \notin DOMAIN fattrs

\* A value that looks pickled and does not decode
Undecodable(v) == IsPickled(v) /\ ~Loads(v).ok
\* C28: a pickled-looking value that fails to decode does not make
\* unpickle_attrs raise, and when the call has ended the attribute is on the
\* target with the original string, whether it was on the target or only on
\* the legacy source.
C28_FailedDecodeKept ==
  UnpickleEnded =>
    /\ (StoreFailKeys(fattrs0) = {} /\ StoreFailKeys(OldAttrs) = {}) => pc = "done"
    /\ \A k \in DOMAIN fattrs0 :
         Undecodable(fattrs0[k]) => k \in DOMAIN fattrs /\ fattrs[k] = fattrs0[k]
    /\ \A k \in LegacyOnly :
         Undecodable(OldAttrs[k]) => k \in DOMAIN fattrs /\ fattrs[k] = OldAttrs[k]
\* The part of it that is about the target's own attributes
FailedDecodeKeptOnTarget ==
  UnpickleEnded =>
    /\ (StoreFailKeys(fattrs0) = {} /\ StoreFailKeys(OldAttrs) = {}) => pc = "done"
    /\ \A k \in DOMAIN fattrs0 :
         Undecodable(fattrs0[k]) => k \in DOMAIN fattrs /\ fattrs[k] = fattrs0[k]

\* The children of the legacy entry e0, its catalog apart, that no row of the
\* catalog refers to
Unreferenced(e0) ==
  {n \in (DOMAIN e0.links) \ {_catalogname} :
     \A j \in DOMAIN RowsOf(e0) : RowNode(RowsOf(e0)[j]) # n}
\* C29: once the step to 1.1 has returned, an entry that had a catalog and
\* another child has exactly the logical names of the rows of its catalog as
\* children: no temporary and no catalog is left, and the nodes no row
\* refers to are gone from the file, like the catalog.
C29_ExactlyLogical ==
  Step11Returned =>
    \A e \in DOMAIN stepEntries :
      LET e0 == stepEntries[e]
          now == entries[e]
      IN  (_catalogname \in DOMAIN e0.links /\ Cardinality(DOMAIN e0.links) > 1) =>
            /\ DOMAIN now.links = {RowsOf(e0)[j].name : j \in DOMAIN RowsOf(e0)}
            /\ \A n \in DOMAIN e0.links : TmpName(n) \notin DOMAIN now.links
            /\ _catalogname \notin DOMAIN now.links
            /\ \A n \in Unreferenced(e0) \cup {_catalogname} :
                 e0.links[n] \notin DOMAIN now.objs
            /\ DOMAIN now.objs = {now.links[n] : n \in DOMAIN now.links}
\* A step to 1.1 has returned on an entry with rows and with a child that no
\* row refers to
C29_Witness ==
  /\ Step11Returned
  /\ \E e \in DOMAIN stepEntries :
       /\ RowsOf(stepEntries[e]) # <<>>
       /\ Unreferenced(stepEntries[e]) # {}
       /\ DOMAIN entries[e].links # {}

\* ------------------------------------------------------------ splitter.py
\* main is the record of the local variables of splitter.main: duration
\* (args.duration, a fraction <<n, d>> of a second), dry_run, append, srcs,
\* tgt_file, entries (what is left of the sorted list of line 113), entry (the
\* pair the loop of line 146 is at), n_chunks, i and tgt_entry_index.
\* A source file is [filename, items], items being its nodes in key order; a
\* node is a group [kind, file, name, attrs, dsets] or the dataset jill_log
\* [kind, name, data]; a dataset of an entry is [attrs, data].  tgt_file maps a
\* name to a group [kind, timestamp, attrs, dsets] or to the dataset jill_log.
MaxHalfSeconds == 4

\* f"entry_{tgt_entry_index:05}"
tgt_entry_name(n) ==
  LET tok == <<"0", "1", "2", "3", "4", "5", "6", "7", "8", "9">>
  IN  <<"entry_", tok[((n \div 10000) % 10) + 1], tok[((n \div 1000) % 10) + 1],
        tok[((n \div 100) % 10) + 1], tok[((n \div 10) % 10) + 1], tok[(n % 10) + 1]>>


\* line 37-46: the duration of the longest sampled dataset, as the fraction
\* <<samples, sampling_rate>> of a second (<<0, 1>> when there is none)
entry_duration(entry) ==
  LET series == {n \in DOMAIN entry.dsets : is_time_series(entry.dsets[n])}
      samples(n) == Len(entry.dsets[n].data)
      sampling_rate(n) == DigitVal(entry.dsets[n].attrs.sampling_rate[2])
  IN  IF series = {} THEN <<0, 1>>
      ELSE LET n == CHOOSE x \in series : \A y \in series :
                      samples(x) * sampling_rate(y) >= samples(y) * sampling_rate(x)
           IN  <<samples(n), sampling_rate(n)>>

\* line 113-116: the pairs (entry, timestamp) of the groups of all the files,
\* sorted by timestamp; sorted() is stable, so pairs of one timestamp stay in
\* the order of the chain (file by file, key by key)
sorted(srcs) ==
  LET at == {<<f, k>> : f \in DOMAIN srcs, k \in 1..MaxEntries}
      groups == {p \in at : p[2] \in DOMAIN srcs[p[1]].items
                              /\ srcs[p[1]].items[p[2]].kind = "group"}
      time(p) == DigitVal(srcs[p[1]].items[p[2]].attrs.timestamp[2])
      before(p, q) == \/ time(p) < time(q)
                      \/ time(p) = time(q) /\ p[1] < q[1]
                      \/ time(p) = time(q) /\ p[1] = q[1] /\ p[2] < q[2]
      nth(n) == CHOOSE p \in groups : Cardinality({q \in groups : before(q, p)}) = n - 1
  IN  [n \in 1..Cardinality(groups) |-> <<srcs[nth(n)[1]].items[nth(n)[2]], time(nth(n))>>]

\* line 49-66: the records of the jill_log datasets of the files, sorted by
\* (sec, usec), the messages given one fixed width; <<>> stands for None
\* (no file has a jill_log), <<arr>> for an array
merge_jill_logs(files) ==
  LET at == {<<f, k, r>> : f \in DOMAIN files, k \in 1..MaxEntries, r \in 1..MaxEntries}
      recs == {p \in at : /\ p[2] \in DOMAIN files[p[1]].items
                          /\ files[p[1]].items[p[2]].kind = "dataset"
                          /\ p[3] \in DOMAIN files[p[1]].items[p[2]].data}
      rec(p) == files[p[1]].items[p[2]].data[p[3]]
      before(p, q) == \/ rec(p).sec < rec(q).sec
                      \/ rec(p).sec = rec(q).sec /\ rec(p).usec < rec(q).usec
      nth(n) == CHOOSE p \in recs : Cardinality({q \in recs : before(q, p)}) = n - 1
      min_length == CHOOSE w \in {Len(rec(p).message) : p \in recs} :
                      \A p \in recs : Len(rec(p).message) <= w
  IN  IF recs = {} THEN <<>>
      ELSE <<[n \in 1..Cardinality(recs) |->
                [sec |-> rec(nth(n)).sec, usec |-> rec(nth(n)).usec,
                 message |-> rec(nth(n)).message, width |-> min_length]]>>

\* line 107-143: the sources are opened and their entries sorted, the target
\* is opened
SplitOpen ==
  /\ pc = "main"
  /\ LET jilllog == merge_jill_logs(main.srcs)
         groups == {n \in DOMAIN main.tgt_file : main.tgt_file[n].kind = "group"}
     IN  main' = [main EXCEPT
                    !.entries = sorted(main.srcs),
                    !.tgt_entry_index =
                       IF ~main.dry_run /\ main.append THEN Cardinality(groups) ELSE 0,
                    !.tgt_file =
                       IF main.dry_run \/ main.append THEN @
                       ELSE IF jilllog = <<>> THEN EmptyMap
                       ELSE [n \in {<<"jill_log">>} |->
                               [kind |-> "dataset", name |-> <<"jill_log">>, data |-> jilllog[1]]]]
  /\ pc' = "split_loop"
  /\ UNCHANGED <<file, locals, start, paths, tool, ci, invoked, err, stepVer, stepFattrs,
                 stepEntries, nextUuid>>

\* line 146-150: the next source entry, the number of its chunks
SplitEntry ==
  /\ pc = "split_loop" /\ main.i = main.n_chunks /\ main.entries # <<>>
  /\ LET max_duration == entry_duration(Head(main.entries)[1])
     IN  main' = [main EXCEPT
                    !.entries = Tail(@), !.entry = Head(main.entries), !.i = 0,
                    !.n_chunks = ((max_duration[1] * main.duration[2])
                                    \div (max_duration[2] * main.duration[1])) + 1]
  /\ UNCHANGED <<file, locals, start, paths, tool, pc, ci, invoked, err, stepVer, stepFattrs,
                 stepEntries, nextUuid>>

\* line 151-190: one chunk of the entry.  An empty slice is handed to
\* arf.create_dataset like any other; whether h5py makes a chunked dataset of
\* no element or refuses depends on its version, so both are outcomes.  The
\* order in which entry.items() (line 168) yields the datasets is the
\* library's: when an empty slice is refused, any of the datasets whose
\* slice is not empty may have been written before it.
SplitChunk ==
  /\ pc = "split_loop" /\ main.i < main.n_chunks
  /\ LET entry == main.entry[1]
         timestamp == main.entry[2]
         name == tgt_entry_name(main.tgt_entry_index)
         tgt_timestamp == <<timestamp * main.duration[2] + main.duration[1] * main.i,
                            main.duration[2]>>
         copied == [k \in ((DOMAIN entry.attrs) \ {"timestamp", "uuid"})
                            \cup (IF "uuid" \in DOMAIN entry.attrs THEN {"origin-uuid"} ELSE {})
                      |-> IF k = "origin-uuid" THEN entry.attrs["uuid"] ELSE entry.attrs[k]]
         attrs == set_attributes(
                    set_attributes([uuid |-> Str(<<"uuid4-">> \o Tail(name))], copied),
                    [k \in {"origin-file", "origin-entry"} |->
                       IF k = "origin-file" THEN Str(<<entry.file[Len(entry.file)]>>)
                       ELSE Str(<<entry.name>>)])
         series == {n \in DOMAIN entry.dsets : is_time_series(entry.dsets[n])}
         slice(dset) ==
           LET sampling_rate == DigitVal(dset.attrs.sampling_rate[2])
               chunk_size == (main.duration[1] * sampling_rate) \div main.duration[2]
               first == chunk_size * main.i
               stop == IF first + chunk_size < Len(dset.data)
                         THEN first + chunk_size ELSE Len(dset.data)
           IN  SubSeq(dset.data, first + 1, stop)
         tgt_attrs(dset) ==
           IF "uuid" \in DOMAIN dset.attrs
             THEN Put(Del(dset.attrs, "uuid"), "origin-uuid", dset.attrs["uuid"])
             ELSE dset.attrs
         made(ns) ==
           [kind |-> "group", timestamp |-> tgt_timestamp, attrs |-> attrs,
            dsets |-> [n \in ns |->
                         [attrs |-> set_attributes([units |-> Str(<<>>), datatype |-> UNDEFINED],
                                                   tgt_attrs(entry.dsets[n])),
                          data |-> slice(entry.dsets[n])]]]
         empty == {n \in series : slice(entry.dsets[n]) = <<>>}
     IN  IF main.dry_run
           THEN /\ main' = [main EXCEPT !.i = @ + 1, !.tgt_entry_index = @ + 1]
                /\ UNCHANGED <<pc, err>>
         ELSE IF name \in DOMAIN main.tgt_file
           THEN /\ main' = [main EXCEPT !.tgt_entry_index = @ + 1]
                /\ pc' = "error" /\ err' \in NameExists
         ELSE \/ /\ main' = [main EXCEPT !.i = @ + 1, !.tgt_entry_index = @ + 1,
                                         !.tgt_file = Put(@, name, made(series))]
                 /\ UNCHANGED <<pc, err>>
              \/ /\ empty # {}
                 /\ \E before \in SUBSET (series \ empty) :
                      main' = [main EXCEPT
                                 !.tgt_entry_index = @ + 1,
                                 !.tgt_file = Put(@, name, made(before))]
                 /\ Raise("ValueError")
  /\ UNCHANGED <<file, locals, start, paths, tool, ci, invoked, stepVer, stepFattrs,
                 stepEntries, nextUuid>>

\* line 146: the list of entries is exhausted, main returns
SplitEnd ==
  /\ pc = "split_loop" /\ main.i = main.n_chunks /\ main.entries = <<>>
  /\ pc' = "done"
  /\ UNCHANGED <<main, file, locals, start, paths, tool, ci, invoked, err, stepVer, stepFattrs,
                 stepEntries, nextUuid>>

\* arfx-split called on one or two source files of at most MaxEntries entries
\* in all, the first entry with a sampled dataset of up to 2 * NSamples
\* samples, with a chunk duration of up to MaxHalfSeconds half seconds
InitSplit ==
  LET sampled(rate, n) ==
        [attrs |-> [sampling_rate |-> IntV(rate), units |-> MilliVolt], data |-> [t \in 1..n |-> t]]
      lfp == [attrs |-> [sampling_rate |-> IntV("1"), units |-> MilliVolt, uuid |-> OldUuid],
              data |-> <<7>>]
      spikes == [attrs |-> [sampling_rate |-> IntV("2"), units |-> Samples], data |-> <<1, 3>>]
      group(f, n, ts, dsets) ==
        [kind |-> "group", file |-> <<"rec", "/", f>>, name |-> n,
         attrs |-> [timestamp |-> IntV(ts), uuid |-> OldUuid, animal |-> Str(<<"b1">>)],
         dsets |-> dsets]
      log(sec, m) ==
        [kind |-> "dataset", name |-> <<"jill_log">>,
         data |-> <<[sec |-> sec, usec |-> 0, message |-> m]>>]
      old(n) == [x \in {tgt_entry_name(n)} |->
                   [kind |-> "group", timestamp |-> <<0, 1>>, attrs |-> EmptyMap, dsets |-> EmptyMap]]
      oldlog == [x \in {<<"jill_log">>} |-> log(0, <<"old">>)]
  IN
  \E rate \in {"1", "2"}, n \in 0..(2 * NSamples), ts \in {"1", "2"},
     more \in {EmptyMap, [lfp |-> lfp], [spikes |-> spikes]} :
    \E others \in 0..(MaxEntries - 2), second \in BOOLEAN, logged \in BOOLEAN,
       half \in 1..MaxHalfSeconds :
      \E mode \in {<<TRUE, FALSE, EmptyMap>>, <<FALSE, FALSE, old(0)>>,
                   <<FALSE, TRUE, EmptyMap>>, <<FALSE, TRUE, old(0)>>,
                   <<FALSE, TRUE, old(1)>>,
                   <<FALSE, TRUE, [x \in {tgt_entry_name(0), <<"jill_log">>} |->
                                     IF x = <<"jill_log">> THEN oldlog[x] ELSE old(0)[x]]>>} :
        LET first == group("a.arf", "e1", ts,
                           [x \in {"mic"} \cup DOMAIN more |->
                              IF x = "mic" THEN sampled(rate, n) ELSE more[x]])
            a == [filename |-> <<"rec", "/", "a.arf">>,
                  items |-> <<first>>
                            \o [j \in 1..others |-> group("a.arf", EntryNames[j + 1], "1",
                                                           [mic |-> sampled("1", 3)])]
                            \o (IF logged THEN <<log(2, <<"late">>)>> ELSE <<>>)]
            b == [filename |-> <<"rec", "/", "b.arf">>,
                  items |-> <<group("b.arf", "e1", "1", [mic |-> sampled("2", 3)]),
                              log(1, <<"early", "!">>)>>]
        IN  /\ main = [duration |-> <<half, 2>>, dry_run |-> mode[1], append |-> mode[2],
                       srcs |-> IF second THEN <<a, b>> ELSE <<a>>,
                       tgt_file |-> mode[3], entries |-> <<>>, entry |-> <<>>,
                       n_chunks |-> 0, i |-> 0, tgt_entry_index |-> 0]
            /\ ParkedMigrate /\ called = "main" /\ pc = "main" /\ err = "none"
            /\ returned = "unset" /\ kwargs = EmptyMap
            /\ entries = EmptyMap /\ entries0 = EmptyMap /\ opened = NoneV /\ disk = EmptyMap
            /\ arglist = <<>> /\ keyorder = <<>> /\ it = <<>> /\ taken = 0 /\ fi = 1
            /\ count = 0 /\ repacked = FALSE /\ entry_names = <<>> /\ channel_props = <<>>
            /\ ebase = NoneV
SpecSplit == InitSplit /\ [][SplitOpen \/ SplitEntry \/ SplitChunk \/ SplitEnd]_vars

\* arfx-split has returned from a run that wrote the target
SplitDone == called = "main" /\ pc = "done" /\ ~main.dry_run
\* The entries of the source files
SourceEntries ==
  UNION {{x \in Range(main.srcs[f].items) : x.kind = "group"} : f \in DOMAIN main.srcs}
\* The names of the target entries that this run made from the source entry e
MadeFrom(e) ==
  {n \in DOMAIN main.tgt_file :
     /\ main.tgt_file[n].kind = "group"
     /\ "origin-file" \in DOMAIN main.tgt_file[n].attrs
     /\ main.tgt_file[n].attrs["origin-file"] = Str(<<e.file[Len(e.file)]>>)
     /\ main.tgt_file[n].attrs["origin-entry"] = Str(<<e.name>>)}
\* The slices of dataset d in the target entries made from e whose index is
\* below k, joined in the order of the index
RECURSIVE Joined(_, _, _)
Joined(e, d, k) ==
  IF k = 0 THEN <<>>
  ELSE Joined(e, d, k - 1) \o
         (IF tgt_entry_name(k - 1) \in MadeFrom(e)
            THEN main.tgt_file[tgt_entry_name(k - 1)].dsets[d].data ELSE <<>>)
\* The chunk duration is a whole number of samples of every sampled dataset of e
WholeChunks(e) ==
  \A d \in DOMAIN e.dsets :
    is_time_series(e.dsets[d]) =>
      (main.duration[1] * DigitVal(e.dsets[d].attrs.sampling_rate[2])) % main.duration[2] = 0
\* The target entries of the run have the names entry_NNNNN of one unbroken
\* range of indices that ends at tgt_entry_index, one name for every chunk
DistinctNames ==
  LET made == UNION {MadeFrom(e) : e \in SourceEntries}
  IN  /\ \E first \in 0..main.tgt_entry_index :
           /\ made = {tgt_entry_name(k) : k \in first..(main.tgt_entry_index - 1)}
           /\ Cardinality(made) = main.tgt_entry_index - first
      /\ \A e \in SourceEntries :
           Cardinality(MadeFrom(e)) =
             ((entry_duration(e)[1] * main.duration[2])
                \div (entry_duration(e)[2] * main.duration[1])) + 1
\* C30: when arfx-split has returned, for every sampled dataset of a source
\* entry the slices in the target entries made from it, joined in the order
\* of the entry index, are the source dataset (nothing lost, nothing twice),
\* whatever the chunk duration and the sampling rate; the target entries have
\* distinct names entry_NNNNN with increasing index.
C30_Slices ==
  SplitDone =>
    /\ \A e \in SourceEntries : \A d \in DOMAIN e.dsets :
         is_time_series(e.dsets[d]) => Joined(e, d, main.tgt_entry_index) = e.dsets[d].data
    /\ DistinctNames
\* The same where the chunk duration is a whole number of samples
SlicesOfWholeChunks ==
  SplitDone =>
    /\ \A e \in SourceEntries : \A d \in DOMAIN e.dsets :
         (is_time_series(e.dsets[d]) /\ WholeChunks(e))
           => Joined(e, d, main.tgt_entry_index) = e.dsets[d].data
    /\ DistinctNames
\* ... and such a run has split a dataset over several target entries
SplitOverSeveral ==
  /\ SplitDone
  /\ \E e \in SourceEntries :
       /\ WholeChunks(e) /\ Cardinality(MadeFrom(e)) > 2
       /\ Len(e.dsets["mic"].data) > 2

====
